---- MODULE Spec2Model ----
(***************************************************************************)
(* Publish cycle of the incremental tile generator                         *)
(* (scripts/generate_tiles.py, scripts/tms_metadata.py).                   *)
(*                                                                         *)
(* The key-value store (Upstash Redis) and the object store (Cloudflare    *)
(* R2) are modelled by what the generator reads and writes there; every    *)
(* store call has a nondeterministic outcome (it returns, or it fails),    *)
(* and reporters add grid ids to an area's change set at any time.         *)
(***************************************************************************)
EXTENDS Integers, Sequences, FiniteSets, TLC

\* ---------------------------------------------------------------- bounds
MaxClock == 11      \* wall clock seconds run over 10..MaxClock
MaxCycles == 1      \* publish cycles started, over all invocations of main()
MaxReports == 1     \* grid reports arriving from the reporters
MaxFaults == 1      \* store calls that fail
MaxChanged == 2     \* entries of the changed_states map handed to a merge
MaxZoom == 2        \* zoom levels run over 0..MaxZoom
MaxCoords == 2      \* members of the changed_coords set of an area
MaxPoints == 2      \* points handed to coords_to_key in one run

\* ------------------------------------------------------ program constants
TILE_SIZE == 256
GRID_WIDTH == 800
GRID_HEIGHT == 600

STATE_CLEAR == 0
STATE_MUDDY == 1
STATE_UNDEFINED == -1

\* Mutant: the muddy colour has alpha 200.
COLOR_PALETTE_alpha200 ==
    [s \in {STATE_CLEAR, STATE_MUDDY, STATE_UNDEFINED} |->
        IF s = STATE_CLEAR THEN <<0, 255, 0, 120>>
        ELSE IF s = STATE_MUDDY THEN <<139, 69, 19, 200>>
        ELSE <<0, 0, 0, 0>>]

\* RGBA colours are 4-tuples.
COLOR_PALETTE ==
    [s \in {STATE_CLEAR, STATE_MUDDY, STATE_UNDEFINED} |->
        IF s = STATE_CLEAR THEN <<0, 255, 0, 120>>
        ELSE IF s = STATE_MUDDY THEN <<139, 69, 19, 180>>
        ELSE <<0, 0, 0, 0>>]

Areas == {"guangfu", "test_a"}

\* A grid id "x_y" is modelled by the tuple of its '_'-separated integer
\* parts: <<x, y>> for a well-formed id, a 1-tuple for an id that
\* x, y = map(int, grid_id.split('_')) rejects with ValueError.
\* "900_0" lies outside the GRID_WIDTH x GRID_HEIGHT grid.
GridIds == {<<0, 0>>, <<900, 0>>, <<7>>}

Clocks == 10..MaxClock

\* ------------------------------------------------------------- variables
VARIABLES
    changed_grids,        \* Redis set changed_grids:{area}
    tile_version,         \* Redis key tile_version:{area}
    tile_version_global,  \* Redis key tile_version
    tiles,                \* R2 objects {version}/0/{x}/{y}.png
    version_metadata,     \* R2 objects {version}/metadata.json
    bounds_metadata,      \* R2 objects {version}/bounds/0.json
    tilesetmetadata,      \* R2 object tilesetmetadata.json present
    versions_json,        \* R2 object versions/versions.json
    pc,                   \* position of the generator process
    r2_enabled,           \* self.r2_enabled
    env,                  \* which collaborators have their credentials in os.environ
    queue,                \* areas the multi-area loop has still to process
    cycles,               \* number of cycles started so far
    result,               \* what the latest cycle returned
    area,                 \* area_name of the cycle
    changed,              \* changed_grids
    previous_version,
    affected_tiles,
    existing_tiles,
    new_version,
    pending,              \* affected tiles the per-tile loop has not visited
    success_count,
    copied_count,
    clock,                \* int(time.time())
    reports,              \* number of reports so far
    faults,               \* number of failed store calls so far
    at_read,              \* history: the area's change set when last observed
    arrived,              \* history: ids reported for the area since then
    doc_status,           \* history: outcome of the cycle's metadata writes
    del_status,           \* history: outcome of the cycle's DEL
    touched,              \* history: version prefixes the cycle put/copied to
    uploaded,             \* history: tiles whose put_object the cycle saw return
    copy_calls,           \* history: the copy_object calls of the cycle
    finished,             \* history: versions of the cycles that have ended
    allocated,            \* history: versions allocated, per area, in order
    published,            \* history: versions of cycles that reported success
                          \*          with the object store enabled
    mpc,                  \* position inside one iteration of the per-tile loop
    tile,                 \* (tile_x, tile_y) of the iteration
    stored_png,           \* R2 object {previous_version}/0/{tile_x}/{tile_y}.png
    changed_states,       \* changed_states: grid id -> state
    existing_tile_bytes,
    coverage,             \* "coverage" of the version descriptor
    hget_reply,           \* replies of HGET grid:{area}:{id} finalState, per id
    png_bytes,
    cpc,                  \* position of a use of the coordinate functions
    zoom_level,           \* zoom
    area_bounds,          \* area_config['bounds']
    changed_coord_keys,   \* Redis set changed_coords:{area}
    geo_scores,           \* Redis hashes geo:{area}:{key}
    standard_tiles,       \* result of calculate_affected_tiles_standard
    coord_states,         \* result of read_changed_coords_states
    tile_content,         \* pixels generate_standard_tile_content paints, per tile
    probe,                \* (lat, lon) handed to lat_lon_to_tile_coords
    tile_coords,          \* its result
    tile_bounds,          \* tile_to_lat_lon_bounds of the tile and its neighbours
    geo_points,           \* (lat, lon) points handed to coords_to_key
    geo_key,              \* their keys
    key_coords,           \* key_to_coords of the keys
    lpc,                  \* position of a use of the tile store's keys
    bucket,               \* keys of the objects in the R2 bucket
    put_tiles,            \* (version, x, y) of the tiles uploaded so far
    descriptor,           \* access_urls.tile_pattern of the version descriptors
    listed,               \* the last get_existing_tiles call
    downloaded,           \* the last download_existing_tile call
    copy_object           \* the last copy_object call of copy_unchanged_tiles

kvVars == <<changed_grids, tile_version, tile_version_global>>
r2Vars == <<tiles, version_metadata, bounds_metadata, tilesetmetadata, versions_json>>
localVars == <<area, changed, previous_version, affected_tiles, existing_tiles,
               new_version, pending, success_count, copied_count>>
histVars == <<at_read, arrived, doc_status, del_status, touched, uploaded,
              copy_calls, finished, allocated, published>>
mergeVars == <<mpc, tile, stored_png, changed_states, existing_tile_bytes,
               png_bytes, coverage, hget_reply>>
cycleVars == <<kvVars, r2Vars, localVars, histVars, pc, r2_enabled, env,
               queue, cycles, result, clock, reports, faults>>
coordVars == <<cpc, zoom_level, area_bounds, changed_coord_keys, geo_scores,
               standard_tiles, coord_states, tile_content, probe, tile_coords,
               tile_bounds, geo_points, geo_key, key_coords>>
layoutVars == <<lpc, bucket, put_tiles, descriptor, listed, downloaded,
               copy_object>>
vars == <<cycleVars, mergeVars, coordVars, layoutVars>>

\* ------------------------------------------------ strings of decimal digits
\* str(int(time.time())): the decimal digits of n, most significant first.
RECURSIVE str(_)
str(n) == IF n < 10 THEN <<n>> ELSE Append(str(n \div 10), n % 10)

\* Python's < on two strings of digits (lexicographic).
RECURSIVE StrLess(_, _)
StrLess(a, b) ==
    IF a = <<>> THEN b # <<>>
    ELSE IF b = <<>> THEN FALSE
    ELSE IF Head(a) = Head(b) THEN StrLess(Tail(a), Tail(b))
    ELSE Head(a) < Head(b)

\* max(versions) over strings.
StrMax(S) == CHOOSE v \in S : \A w \in S : ~StrLess(v, w)

RECURSIVE InsertDesc(_, _)
InsertDesc(v, s) ==
    IF s = <<>> THEN <<v>>
    ELSE IF StrLess(Head(s), v) THEN <<v>> \o s
    ELSE <<Head(s)>> \o InsertDesc(v, Tail(s))

\* sorted(versions, reverse=True)
RECURSIVE sorted_reverse(_)
sorted_reverse(s) ==
    IF s = <<>> THEN <<>> ELSE InsertDesc(Head(s), sorted_reverse(Tail(s)))

NoArea == ""           \* no cycle is running
NoVersion == <<>>      \* None (every test of a version is a truthiness test)
Versions == {str(c) : c \in Clocks}

Range(s) == {s[i] : i \in 1..Len(s)}

\* ------------------------------------------------------------- documents
NoDoc == [exists |-> FALSE, versions |-> <<>>, total_versions |-> 0,
          latest_version |-> NoVersion]

generate_versions_metadata(versions) ==
    [exists |-> TRUE,
     versions |-> sorted_reverse(versions),
     total_versions |-> Len(versions),
     latest_version |-> IF versions # <<>> THEN versions[1] ELSE NoVersion]

\* The tile strings "x/y" are modelled by the pair <<x, y>>.
NoBounds == [exists |-> FALSE, tile_count |-> 0, tiles |-> {}]

generate_bounds_metadata(tile_list) ==
    [exists |-> TRUE, tile_count |-> Cardinality(tile_list), tiles |-> tile_list]

Docs == {"version", "bounds", "tileset", "index"}
NoDocStatus == [d \in Docs |-> "none"]

\* --------------------------------------------------------------- results
NoResult == [tag |-> "pending", success |-> FALSE, version |-> NoVersion,
             tiles_processed |-> 0, tiles_copied |-> 0, affected_tiles |-> 0]

Outcome(tag) == [NoResult EXCEPT !.tag = tag]

SuccessResult ==
    [tag |-> "published", success |-> TRUE, version |-> new_version,
     tiles_processed |-> success_count, tiles_copied |-> copied_count,
     affected_tiles |-> Cardinality(affected_tiles)]

\* ------------------------------------------------------------ pure steps
calculate_affected_tiles(changed_grid_ids) ==
    {<<g[1] \div TILE_SIZE, g[2] \div TILE_SIZE>> :
        g \in {h \in changed_grid_ids : Len(h) = 2}}

\* Objects list_objects_v2 returns as CommonPrefixes for Delimiter "/",
\* restricted to the all-digit ones.
VersionDirs ==
    {k[1] : k \in tiles} \cup version_metadata
        \cup {v \in Versions : bounds_metadata[v].exists}

get_latest_version(a, get_ok, list_ok) ==
    IF ~r2_enabled THEN NoVersion
    ELSE IF get_ok /\ tile_version[a] # NoVersion THEN tile_version[a]
    ELSE IF list_ok /\ VersionDirs # {} THEN StrMax(VersionDirs)
    ELSE NoVersion

get_existing_tiles(prev, list_ok) ==
    IF ~r2_enabled \/ prev = NoVersion THEN {}
    ELSE IF list_ok THEN {k[2] : k \in {j \in tiles : j[1] = prev}}
    ELSE {}

\* ----------------------------------------------------------------- Init
\* The Redis and the R2 environment variables are all set.
AllCredentials == [redis |-> TRUE, r2 |-> TRUE]

FirstClock == CHOOSE c \in Clocks : \A d \in Clocks : c <= d

\* Nothing has been published yet.
Fresh ==
    /\ tile_version = [a \in Areas |-> NoVersion]
    /\ tile_version_global = NoVersion
    /\ tiles = {}
    /\ version_metadata = {}
    /\ bounds_metadata = [v \in Versions |-> NoBounds]
    /\ tilesetmetadata = FALSE
    /\ versions_json = NoDoc
    /\ finished = {}
    /\ allocated = [a \in Areas |-> <<>>]
    /\ published = {}

\* The stores as a first cycle of area guangfu leaves them when every call
\* succeeds: change set {"0_0"} published as version str(FirstClock).
AfterFirstPublish ==
    LET v == str(FirstClock)
        first_tile == <<0, 0>>
    IN
    /\ tile_version = [a \in Areas |-> IF a = "guangfu" THEN v ELSE NoVersion]
    /\ tile_version_global = v
    /\ tiles = {<<v, first_tile>>}
    /\ version_metadata = {v}
    /\ bounds_metadata = [w \in Versions |->
                            IF w = v THEN generate_bounds_metadata({first_tile})
                            ELSE NoBounds]
    /\ tilesetmetadata = TRUE
    /\ versions_json = generate_versions_metadata(<<v>>)
    /\ finished = {v}
    /\ allocated = [a \in Areas |-> IF a = "guangfu" THEN <<v>> ELSE <<>>]
    /\ published = {v}

\* No process is running.
Idle ==
    /\ changed_grids = [a \in Areas |-> {}]
    /\ pc = "idle"
    /\ r2_enabled = TRUE
    /\ env = AllCredentials
    /\ queue = <<>>
    /\ cycles = 0
    /\ result = NoResult
    /\ area = NoArea
    /\ changed = {}
    /\ affected_tiles = {}
    /\ existing_tiles = {}
    /\ new_version = NoVersion
    /\ pending = {}
    /\ success_count = 0
    /\ copied_count = 0
    /\ clock = FirstClock
    /\ reports = 0
    /\ faults = 0
    /\ at_read = {}
    /\ arrived = {}
    /\ doc_status = NoDocStatus
    /\ del_status = "none"
    /\ touched = {}
    /\ uploaded = {}
    /\ copy_calls = {}

\* ------------------------------------------- rasters and the tile merge
\* A byte string is modelled by what Image.open makes of it: a PNG of some
\* size with its RGBA pixels at the sampled positions that lie inside it,
\* or bytes that do not decode.
Positions == {<<0, 0>>, <<44, 0>>, <<300, 0>>}
ImageSizes == {TILE_SIZE, 2 * TILE_SIZE}

InImage(size) == {p \in Positions : p[1] < size /\ p[2] < size}

None == [kind |-> "None"]
NoSuchKey == [kind |-> "NoSuchKey"]
Garbage == [kind |-> "bytes"]
IndexError == [kind |-> "IndexError"]

\* img.save(buffer, format='PNG') of a size x size RGBA image.
Png(size, px) == [kind |-> "png", size |-> size, px |-> px]

ForeignColor == <<139, 69, 19, 200>>
Colors == {COLOR_PALETTE[s] : s \in DOMAIN COLOR_PALETTE} \cup {ForeignColor}

\* finalState is whatever int() accepts.
StateValues == DOMAIN COLOR_PALETTE \cup {2}

\* Objects that can be stored under a tile key of the previous version.
StoredObjects ==
    {NoSuchKey, Garbage}
        \cup UNION {{Png(n, px) : px \in [InImage(n) -> Colors]} : n \in ImageSizes}

MergeGridIds == GridIds \cup {<<44, 0>>}

ChangedStateMaps ==
    UNION {[D -> StateValues] :
              D \in {E \in SUBSET MergeGridIds : Cardinality(E) <= MaxChanged}}

NoPixels == [p \in {} |-> STATE_UNDEFINED]

\* Mutant: the reverse table has the two reported states exchanged.
color_to_state_exchanged ==
    [c \in {<<0, 255, 0, 120>>, <<139, 69, 19, 180>>, <<0, 0, 0, 0>>} |->
        IF c = <<0, 255, 0, 120>> THEN STATE_MUDDY
        ELSE IF c = <<139, 69, 19, 180>> THEN STATE_CLEAR
        ELSE STATE_UNDEFINED]

\* Mutant: the reverse table holds the muddy colour with another alpha.
color_to_state_other_alpha ==
    [c \in {<<0, 255, 0, 120>>, <<139, 69, 19, 200>>, <<0, 0, 0, 0>>} |->
        IF c = <<0, 255, 0, 120>> THEN STATE_CLEAR
        ELSE IF c = <<139, 69, 19, 200>> THEN STATE_MUDDY
        ELSE STATE_UNDEFINED]

color_to_state ==
    [c \in {<<0, 255, 0, 120>>, <<139, 69, 19, 180>>, <<0, 0, 0, 0>>} |->
        IF c = <<0, 255, 0, 120>> THEN STATE_CLEAR
        ELSE IF c = <<139, 69, 19, 180>> THEN STATE_MUDDY
        ELSE STATE_UNDEFINED]

\* Bytes that do not decode raise inside the try and give {}.
parse_existing_tile_pixels(bytes) ==
    IF bytes.kind # "png" THEN NoPixels
    ELSE LET kept == {p \in DOMAIN bytes.px :
                         /\ bytes.px[p] \in DOMAIN color_to_state
                         /\ color_to_state[bytes.px[p]] # STATE_UNDEFINED}
         IN [p \in kept |-> color_to_state[bytes.px[p]]]

\* Mutant: a state outside the palette is painted opaque black.
DefaultColor_opaque == <<0, 0, 0, 255>>

\* The default of COLOR_PALETTE.get(state, (0, 0, 0, 0)).
DefaultColor == <<0, 0, 0, 0>>

palette_get(state) ==
    IF state \in DOMAIN COLOR_PALETTE THEN COLOR_PALETTE[state] ELSE DefaultColor

\* start_x <= grid_x < start_x + TILE_SIZE and the same for y, for a grid id
\* that map(int, grid_id.split('_')) unpacks into two integers.
in_tile(g, t) ==
    /\ Len(g) = 2
    /\ t[1] * TILE_SIZE <= g[1] /\ g[1] < t[1] * TILE_SIZE + TILE_SIZE
    /\ t[2] * TILE_SIZE <= g[2] /\ g[2] < t[2] * TILE_SIZE + TILE_SIZE

local(g, t) == <<g[1] - t[1] * TILE_SIZE, g[2] - t[2] * TILE_SIZE>>

\* Mutant: the existing pixels are drawn after the changed grids.
merged_pixel_existing_last(p, t, states, existing_pixels) ==
    LET hits == {g \in DOMAIN states : in_tile(g, t) /\ local(g, t) = p} IN
    IF p \in DOMAIN existing_pixels THEN palette_get(existing_pixels[p])
    ELSE IF hits # {} THEN palette_get(states[CHOOSE g \in hits : TRUE])
    ELSE <<0, 0, 0, 0>>

\* Pixel p of the image after both drawing passes: the changed grids are
\* drawn over the existing pixels, these over the transparent image.
merged_pixel(p, t, states, existing_pixels) ==
    LET hits == {g \in DOMAIN states : in_tile(g, t) /\ local(g, t) = p} IN
    IF hits # {} THEN palette_get(states[CHOOSE g \in hits : TRUE])
    ELSE IF p \in DOMAIN existing_pixels THEN palette_get(existing_pixels[p])
    ELSE <<0, 0, 0, 0>>

\* Mutant: a key that does not unpack is not caught inside the loop.
generate_incremental_tile_uncaught(t, states, bytes) ==
    IF \E g \in DOMAIN states : Len(g) # 2 THEN [kind |-> "ValueError"]
    ELSE LET existing_pixels == IF bytes # None
                                THEN parse_existing_tile_pixels(bytes)
                                ELSE NoPixels
         IN IF DOMAIN existing_pixels \subseteq InImage(TILE_SIZE)
            THEN Png(TILE_SIZE, [p \in InImage(TILE_SIZE) |->
                                    merged_pixel(p, t, states, existing_pixels)])
            ELSE IndexError

\* An existing pixel outside the 256 x 256 image makes pixels[x, y] = color
\* raise IndexError.
generate_incremental_tile(t, states, bytes) ==
    LET existing_pixels == IF bytes # None
                           THEN parse_existing_tile_pixels(bytes)
                           ELSE NoPixels
    IN IF DOMAIN existing_pixels \subseteq InImage(TILE_SIZE)
       THEN Png(TILE_SIZE, [p \in InImage(TILE_SIZE) |->
                               merged_pixel(p, t, states, existing_pixels)])
       ELSE IndexError

\* get_object of the tile under the previous version: NoSuchKey and every
\* other failure give None.
download_existing_tile(get_ok) ==
    IF ~r2_enabled THEN None
    ELSE IF get_ok /\ stored_png # NoSuchKey THEN stored_png
    ELSE None

\* No iteration of the per-tile loop is examined.
NoMerge ==
    /\ mpc = "none"
    /\ tile = <<0, 0>>
    /\ stored_png = NoSuchKey
    /\ changed_states = NoPixels
    /\ existing_tile_bytes = None
    /\ png_bytes = None
    /\ coverage = None
    /\ hget_reply = <<>>

\* The coordinate functions are not in use.
NoBox == [minLat |-> 0, maxLat |-> 0, minLng |-> 0, maxLng |-> 0]

\* The keys of the tile store are not in use.
NoCall == [kind |-> "none"]

NoLayout ==
    /\ lpc = "none"
    /\ bucket = {}
    /\ put_tiles = {}
    /\ descriptor = <<>>
    /\ listed = NoCall
    /\ downloaded = NoCall
    /\ copy_object = NoCall

NoCoord ==
    /\ cpc = "none"
    /\ zoom_level = 0
    /\ area_bounds = NoBox
    /\ changed_coord_keys = {}
    /\ geo_scores = <<>>
    /\ standard_tiles = {}
    /\ coord_states = <<>>
    /\ tile_content = <<>>
    /\ probe = <<0, 0>>
    /\ tile_coords = <<0, 0, 0>>
    /\ tile_bounds = <<>>
    /\ geo_points = {}
    /\ geo_key = <<>>
    /\ key_coords = <<>>

Init ==
    /\ Fresh \/ AfterFirstPublish
    /\ Idle
    /\ previous_version = NoVersion
    /\ NoMerge
    /\ NoCoord
    /\ NoLayout

\* ------------------------------------------------------- ends of a cycle
CyclePcs == {"get_changed", "get_latest", "get_existing", "alloc", "copy",
             "tiles", "meta_version", "meta_bounds", "meta_tileset",
             "meta_index", "meta_pointer", "set_pointer", "clear"}

\* The local variables of a cycle that is not running.
NoLocals ==
    /\ changed' = {}
    /\ previous_version' = NoVersion
    /\ affected_tiles' = {}
    /\ existing_tiles' = {}
    /\ new_version' = NoVersion
    /\ pending' = {}
    /\ success_count' = 0
    /\ copied_count' = 0
    /\ at_read' = {}
    /\ arrived' = {}
    /\ doc_status' = NoDocStatus
    /\ del_status' = "none"
    /\ touched' = {}
    /\ uploaded' = {}
    /\ copy_calls' = {}

\* The cycle ends with outcome res; the process goes on at next_pc with the
\* areas q left to process.
End(res, next_pc, q) ==
    /\ result' = res
    /\ pc' = next_pc
    /\ queue' = q
    /\ finished' = IF new_version # NoVersion
                   THEN finished \cup {new_version} ELSE finished
    /\ published' = IF res.success /\ r2_enabled
                    THEN published \cup {new_version} ELSE published

\* Mutant: an empty tile set returns what an empty change set returns.
no_tiles_result_none == Outcome("none")

\* return {'success': False, 'reason': 'no_tiles_to_update'}
no_tiles_result == Outcome("no_tiles_to_update")

\* return <res> from generate_intelligent_tiles_for_area.
Return(res) == End(res, "returned", queue)

\* An exception leaves generate_intelligent_tiles_for_area and the loop of
\* generate_intelligent_tiles, neither of which catches it; main() exits.
Raise == End(Outcome("exception"), "returned", <<>>)

\* ------------------------------------------------------------ store calls
\* A store call returns (ok) or fails; k calls of the step fail.
Failed(ok) == IF ok THEN 0 ELSE 1

Faults(k) ==
    /\ faults + k <= MaxFaults
    /\ faults' = faults + k

\* ---------------------------------------------------------------- actions
\* main(): construct the generator and enter the loop over
\* get_enabled_areas().  _setup_redis raises when its variables are missing
\* and main() exits; _setup_r2 raises when its variables are missing, or
\* when no connection strategy works (~connect_ok), and __init__ catches
\* that and leaves r2_enabled False.
StartRun(redis_env, r2_env, connect_ok, q) ==
    /\ pc = "idle"
    /\ UNCHANGED faults
    /\ cycles < MaxCycles
    /\ ~(redis_env /\ r2_env) => connect_ok       \* no connection is tried
    /\ env' = [redis |-> redis_env, r2 |-> r2_env]
    /\ IF redis_env
       THEN /\ r2_enabled' = (r2_env /\ connect_ok)
            /\ queue' = q
            /\ pc' = "loop"
       ELSE /\ pc' = "aborted"
            /\ UNCHANGED <<r2_enabled, queue>>
    /\ UNCHANGED <<kvVars, r2Vars, localVars, histVars, cycles, result, clock,
                   reports>>
    /\ UNCHANGED <<mergeVars, coordVars, layoutVars>>

\* for area_config in enabled_areas: enter the cycle of the next area.
BeginArea ==
    /\ pc = "loop"
    /\ UNCHANGED faults
    /\ queue # <<>>
    /\ cycles < MaxCycles
    /\ cycles' = cycles + 1
    /\ area' = Head(queue)
    /\ queue' = Tail(queue)
    /\ pc' = "get_changed"
    /\ at_read' = changed_grids[Head(queue)]
    /\ UNCHANGED <<kvVars, r2Vars, changed, previous_version, affected_tiles,
                   existing_tiles, new_version, pending, success_count,
                   copied_count, arrived, doc_status, del_status, touched,
                   finished, allocated, published, r2_enabled, env, result, clock,
                   reports>>
    /\ UNCHANGED <<uploaded, copy_calls, mergeVars, coordVars, layoutVars>>

\* The cycle is over and its frame is gone: the loop of
\* generate_intelligent_tiles takes the result and goes on (after an
\* exception there is nothing left to go on with).
CollectResult ==
    /\ pc = "returned"
    /\ UNCHANGED faults
    /\ pc' = "loop"
    /\ result' = NoResult
    /\ NoLocals
    /\ area' = NoArea
    /\ UNCHANGED <<kvVars, r2Vars, finished, allocated, published,
                   r2_enabled, env, queue, cycles, clock, reports>>
    /\ UNCHANGED <<mergeVars, coordVars, layoutVars>>

\* The loop is over, or the constructor raised; the process exits.
EndRun ==
    /\ \/ pc = "loop" /\ queue = <<>>
       \/ pc = "aborted"
    /\ pc' = "idle"
    /\ r2_enabled' = TRUE
    /\ env' = AllCredentials
    /\ UNCHANGED <<kvVars, r2Vars, localVars, histVars, queue, cycles, result,
                   clock, reports, faults>>
    /\ UNCHANGED <<mergeVars, coordVars, layoutVars>>

\* 1. changed_grids = self.get_changed_grids(area_name); a failed SMEMBERS
\*    reads as the empty list.  An empty list returns None.
GetChangedGrids(ok) ==
    /\ pc = "get_changed"
    /\ Faults(Failed(ok))
    /\ LET members == IF ok THEN changed_grids[area] ELSE {} IN
        /\ changed' = members
        /\ at_read' = changed_grids[area]
        /\ arrived' = {}
        /\ IF members = {}
           THEN Return(Outcome("none"))
           ELSE /\ pc' = "get_latest"
                /\ UNCHANGED <<result, queue, finished, published>>
    /\ UNCHANGED <<kvVars, r2Vars, area, previous_version, affected_tiles,
                   existing_tiles, new_version, pending, success_count,
                   copied_count, doc_status, del_status, touched, allocated,
                   r2_enabled, env, cycles, clock, reports>>
    /\ UNCHANGED <<uploaded, copy_calls, mergeVars, coordVars, layoutVars>>

\* 2.-3. previous_version = self.get_latest_version(area_name);
\*       affected_tiles = self.calculate_affected_tiles(changed_grids).
GetLatestVersion(get_ok, list_ok) ==
    /\ pc = "get_latest"
    /\ Faults(Failed(get_ok) + Failed(list_ok))
    /\ ~r2_enabled => get_ok                      \* no GET is made
    /\ ~r2_enabled \/ (get_ok /\ tile_version[area] # NoVersion)
           => list_ok                             \* no listing is made
    /\ previous_version' = get_latest_version(area, get_ok, list_ok)
    /\ affected_tiles' = calculate_affected_tiles(changed)
    /\ IF calculate_affected_tiles(changed) = {}
       THEN Return(no_tiles_result)
       ELSE /\ pc' = "get_existing"
            /\ UNCHANGED <<result, queue, finished, published>>
    /\ UNCHANGED <<kvVars, r2Vars, area, changed, existing_tiles, new_version,
                   pending, success_count, copied_count, at_read, arrived,
                   doc_status, del_status, touched, allocated, r2_enabled, env,
                   cycles, clock, reports>>
    /\ UNCHANGED <<uploaded, copy_calls, mergeVars, coordVars, layoutVars>>

\* 4. existing_tiles = self.get_existing_tiles(previous_version)
GetExistingTiles(list_ok) ==
    /\ pc = "get_existing"
    /\ Faults(Failed(list_ok))
    /\ previous_version = NoVersion => list_ok    \* no listing is made
    /\ existing_tiles' = get_existing_tiles(previous_version, list_ok)
    /\ pc' = "alloc"
    /\ UNCHANGED <<kvVars, r2Vars, area, changed, previous_version,
                   affected_tiles, new_version, pending, success_count,
                   copied_count, histVars, r2_enabled, env, queue, cycles, result,
                   clock, reports>>
    /\ UNCHANGED <<mergeVars, coordVars, layoutVars>>

\* 6. new_version = str(int(time.time()))
AllocateVersion ==
    /\ pc = "alloc"
    /\ UNCHANGED faults
    /\ new_version' = str(clock)
    /\ allocated' = [allocated EXCEPT ![area] = Append(@, str(clock))]
    /\ pending' = affected_tiles
    /\ pc' = "copy"
    /\ UNCHANGED <<kvVars, r2Vars, area, changed, previous_version,
                   affected_tiles, existing_tiles, success_count, copied_count,
                   at_read, arrived, doc_status, del_status, touched, finished,
                   published, r2_enabled, env, queue, cycles, result, clock, reports>>
    /\ UNCHANGED <<uploaded, copy_calls, mergeVars, coordVars, layoutVars>>

\* Mutant: every tile of the previous version is copied.
unchanged_tiles_all == existing_tiles

\* The tiles copy_unchanged_tiles tries to copy.
unchanged_tiles == existing_tiles \ affected_tiles

\* 7. copy_unchanged_tiles: copy_object succeeds for the tiles of copied and
\*    fails (logged, skipped) for the other unchanged tiles.
CopyUnchangedTiles(copied) ==
    /\ pc = "copy"
    /\ IF previous_version # NoVersion /\ existing_tiles # {} /\ r2_enabled
       THEN /\ copied \subseteq
                 {t \in unchanged_tiles : <<previous_version, t>> \in tiles}
            /\ Faults(Cardinality(unchanged_tiles \ copied))
            /\ tiles' = tiles \cup {<<new_version, t>> : t \in copied}
            /\ copied_count' = Cardinality(copied)
            /\ copy_calls' = {[src |-> <<previous_version, t>>,
                               dst |-> <<new_version, t>>,
                               ok |-> t \in copied] : t \in unchanged_tiles}
            /\ touched' = IF unchanged_tiles # {}
                          THEN touched \cup {new_version} ELSE touched
       ELSE /\ copied = {}
            /\ UNCHANGED <<tiles, copied_count, copy_calls, touched, faults>>
    /\ pc' = "tiles"
    /\ UNCHANGED <<kvVars, version_metadata, bounds_metadata, tilesetmetadata,
                   versions_json, area, changed, previous_version,
                   affected_tiles, existing_tiles, new_version, pending,
                   success_count, at_read, arrived, doc_status, del_status,
                   finished, allocated, published, r2_enabled, env, queue, cycles,
                   result, clock, reports>>
    /\ UNCHANGED <<uploaded, mergeVars, coordVars, layoutVars>>

\* 8. one iteration of the per-tile loop: download, merge, upload.  With the
\*    store disabled upload_tile_to_r2 returns without writing; a failed
\*    put_object raises and the tile is skipped.
ProcessTile(t, put_ok) ==
    /\ pc = "tiles"
    /\ Faults(Failed(put_ok))
    /\ ~r2_enabled => put_ok                      \* no put is made
    /\ t \in pending
    /\ pending' = pending \ {t}
    /\ IF ~r2_enabled
       THEN /\ success_count' = success_count + 1
            /\ UNCHANGED <<tiles, touched, uploaded>>
       ELSE /\ touched' = touched \cup {new_version}
            /\ IF put_ok
               THEN /\ tiles' = tiles \cup {<<new_version, t>>}
                    /\ uploaded' = uploaded \cup {t}
                    /\ success_count' = success_count + 1
               ELSE UNCHANGED <<tiles, uploaded, success_count>>
    /\ UNCHANGED <<kvVars, version_metadata, bounds_metadata, tilesetmetadata,
                   versions_json, area, changed, previous_version,
                   affected_tiles, existing_tiles, new_version, copied_count,
                   at_read, arrived, doc_status, del_status, finished,
                   allocated, published, pc, r2_enabled, env, queue, cycles, result,
                   clock, reports>>
    /\ UNCHANGED <<copy_calls, mergeVars, coordVars, layoutVars>>

\* Mutant: the cycle clears the change set before it gives up.
TilesDone_clears ==
    /\ pc = "tiles"
    /\ pending = {}
    /\ IF success_count = 0
       THEN /\ Return(Outcome("no_tiles_processed"))
            /\ changed_grids' = [changed_grids EXCEPT ![area] = {}]
       ELSE /\ pc' = "meta_version"
            /\ UNCHANGED <<result, queue, finished, published, changed_grids>>
    /\ UNCHANGED <<tile_version, tile_version_global, r2Vars, localVars,
                   at_read, arrived, doc_status, del_status, touched,
                   allocated, r2_enabled, env, cycles, clock, reports, faults>>
    /\ UNCHANGED <<uploaded, copy_calls, mergeVars, coordVars, layoutVars>>

\* Mutant: the cycle goes on to the metadata whatever the loop achieved.
TilesDone_publishes_anyway ==
    /\ pc = "tiles"
    /\ pending = {}
    /\ pc' = "meta_version"
    /\ UNCHANGED <<result, queue, finished, published>>
    /\ UNCHANGED <<kvVars, r2Vars, localVars, at_read, arrived, doc_status,
                   del_status, touched, allocated, r2_enabled, env, cycles, clock,
                   reports, faults>>
    /\ UNCHANGED <<uploaded, copy_calls, mergeVars, coordVars, layoutVars>>

\* Mutant: the metadata step is left out.
TilesDone_skips_metadata ==
    /\ pc = "tiles"
    /\ pending = {}
    /\ IF success_count = 0
       THEN Return(Outcome("no_tiles_processed"))
       ELSE /\ pc' = "set_pointer"
            /\ UNCHANGED <<result, queue, finished, published>>
    /\ UNCHANGED <<kvVars, r2Vars, localVars, at_read, arrived, doc_status,
                   del_status, touched, allocated, r2_enabled, env, cycles, clock,
                   reports, faults>>
    /\ UNCHANGED <<uploaded, copy_calls, mergeVars, coordVars, layoutVars>>

\* if success_count == 0: return no_tiles_processed
TilesDone ==
    /\ pc = "tiles"
    /\ pending = {}
    /\ IF success_count = 0
       THEN Return(Outcome("no_tiles_processed"))
       ELSE /\ pc' = "meta_version"
            /\ UNCHANGED <<result, queue, finished, published>>
    /\ UNCHANGED <<kvVars, r2Vars, localVars, at_read, arrived, doc_status,
                   del_status, touched, allocated, r2_enabled, env, cycles, clock,
                   reports, faults>>
    /\ UNCHANGED <<uploaded, copy_calls, mergeVars, coordVars, layoutVars>>

\* 9. upload_tms_metadata, first write: {version}/metadata.json.  With the
\*    store disabled upload_tms_metadata returns at once; a failed put_object
\*    is re-raised and leaves the cycle.
PutVersionMetadata(ok) ==
    /\ pc = "meta_version"
    /\ Faults(Failed(ok))
    /\ ~r2_enabled => ok                          \* no put is made
    /\ IF ~r2_enabled
       THEN /\ pc' = "set_pointer"
            /\ UNCHANGED <<version_metadata, doc_status, touched, result,
                           queue, finished, published>>
       ELSE /\ touched' = touched \cup {new_version}
            /\ IF ok
               THEN /\ version_metadata' = version_metadata \cup {new_version}
                    /\ doc_status' = [doc_status EXCEPT !["version"] = "ok"]
                    /\ pc' = "meta_bounds"
                    /\ UNCHANGED <<result, queue, finished, published>>
               ELSE /\ doc_status' = [doc_status EXCEPT !["version"] = "failed"]
                    /\ Raise
                    /\ UNCHANGED version_metadata
    /\ UNCHANGED <<kvVars, tiles, bounds_metadata, tilesetmetadata,
                   versions_json, localVars, at_read, arrived, del_status,
                   allocated, r2_enabled, env, cycles, clock, reports>>
    /\ UNCHANGED <<uploaded, copy_calls, mergeVars, coordVars, layoutVars>>

\* second write: {version}/bounds/0.json, listing the affected tiles.
PutBoundsMetadata(ok) ==
    /\ pc = "meta_bounds"
    /\ Faults(Failed(ok))
    /\ touched' = touched \cup {new_version}
    /\ IF ok
       THEN /\ bounds_metadata' = [bounds_metadata EXCEPT ![new_version] =
                                     generate_bounds_metadata(affected_tiles)]
            /\ doc_status' = [doc_status EXCEPT !["bounds"] = "ok"]
            /\ pc' = "meta_tileset"
            /\ UNCHANGED <<result, queue, finished, published>>
       ELSE /\ doc_status' = [doc_status EXCEPT !["bounds"] = "failed"]
            /\ Raise
            /\ UNCHANGED bounds_metadata
    /\ UNCHANGED <<kvVars, tiles, version_metadata, tilesetmetadata,
                   versions_json, localVars, at_read, arrived, del_status,
                   allocated, r2_enabled, env, cycles, clock, reports>>
    /\ UNCHANGED <<uploaded, copy_calls, mergeVars, coordVars, layoutVars>>

\* third write: tilesetmetadata.json.
PutTilesetMetadata(ok) ==
    /\ pc = "meta_tileset"
    /\ Faults(Failed(ok))
    /\ IF ok
       THEN /\ tilesetmetadata' = TRUE
            /\ doc_status' = [doc_status EXCEPT !["tileset"] = "ok"]
            /\ pc' = "meta_index"
            /\ UNCHANGED <<result, queue, finished, published>>
       ELSE /\ doc_status' = [doc_status EXCEPT !["tileset"] = "failed"]
            /\ Raise
            /\ UNCHANGED tilesetmetadata
    /\ UNCHANGED <<kvVars, tiles, version_metadata, bounds_metadata,
                   versions_json, localVars, at_read, arrived, del_status,
                   touched, allocated, r2_enabled, env, cycles, clock, reports>>
    /\ UNCHANGED <<uploaded, copy_calls, mergeVars, coordVars, layoutVars>>

\* The list update_versions_list hands to generate_versions_metadata.
existing_versions_with(doc, version) ==
    LET existing_versions == IF doc.exists THEN doc.versions ELSE <<>> IN
    IF version \in Range(existing_versions)
    THEN existing_versions
    ELSE Append(existing_versions, version)

\* fourth write: update_versions_list(version).  get_ok is FALSE when
\* get_object fails with anything but NoSuchKey; that failure and a failure
\* of put_object are caught and logged inside update_versions_list.
UpdateVersionsList(get_ok, put_ok) ==
    /\ pc = "meta_index"
    /\ Faults(Failed(get_ok) + Failed(put_ok))
    /\ ~get_ok => put_ok                          \* no put is made
    /\ IF get_ok /\ put_ok
       THEN /\ versions_json' = generate_versions_metadata(
                                  existing_versions_with(versions_json, new_version))
            /\ doc_status' = [doc_status EXCEPT !["index"] = "ok"]
       ELSE /\ doc_status' = [doc_status EXCEPT !["index"] = "failed"]
            /\ UNCHANGED versions_json
    /\ pc' = "meta_pointer"
    /\ UNCHANGED <<kvVars, tiles, version_metadata, bounds_metadata,
                   tilesetmetadata, localVars, at_read, arrived, del_status,
                   touched, finished, allocated, published, r2_enabled, env, queue,
                   cycles, result, clock, reports>>
    /\ UNCHANGED <<uploaded, copy_calls, mergeVars, coordVars, layoutVars>>

\* self._redis_request('SET', 'tile_version', version), the last call of
\* upload_tms_metadata; _redis_request swallows a failure.
SetGlobalPointer(ok) ==
    /\ pc = "meta_pointer"
    /\ Faults(Failed(ok))
    /\ tile_version_global' = IF ok THEN new_version ELSE tile_version_global
    /\ pc' = "set_pointer"
    /\ UNCHANGED <<changed_grids, tile_version, r2Vars, localVars, histVars,
                   r2_enabled, env, queue, cycles, result, clock, reports>>
    /\ UNCHANGED <<mergeVars, coordVars, layoutVars>>

\* 10. self._redis_request('SET', f'tile_version:{area_name}', new_version)
SetAreaPointer(ok) ==
    /\ pc = "set_pointer"
    /\ Faults(Failed(ok))
    /\ tile_version' = IF ok THEN [tile_version EXCEPT ![area] = new_version]
                       ELSE tile_version
    /\ pc' = "clear"
    /\ UNCHANGED <<changed_grids, tile_version_global, r2Vars, localVars,
                   histVars, r2_enabled, env, queue, cycles, result, clock, reports>>
    /\ UNCHANGED <<mergeVars, coordVars, layoutVars>>

\* Mutant: the DEL names one fixed area instead of the cycle's area.
cleared_key_fixed(area_name) == "guangfu"

\* The Redis key that clear_changed_grids deletes.
cleared_key(area_name) == area_name

\* 11. self.clear_changed_grids(area_name), then return the success result.
\*     A failed DEL is swallowed by _redis_request.
ClearChangedGrids(ok) ==
    /\ pc = "clear"
    /\ Faults(Failed(ok))
    /\ IF ok
       THEN /\ changed_grids' = [changed_grids EXCEPT ![cleared_key(area)] = {}]
            /\ del_status' = "ok"
            /\ arrived' = {}
       ELSE /\ del_status' = "failed"
            /\ UNCHANGED <<changed_grids, arrived>>
    /\ Return(SuccessResult)
    /\ UNCHANGED <<tile_version, tile_version_global, r2Vars, localVars,
                   at_read, doc_status, touched, allocated, r2_enabled, env, cycles,
                   clock, reports>>
    /\ UNCHANGED <<uploaded, copy_calls, mergeVars, coordVars, layoutVars>>

\* The process is stopped in the middle of a cycle (job timeout, signal),
\* at any point from the per-tile loop on; an earlier stop has written
\* nothing and leaves the stores as a cycle that never started does.
InterruptPcs == CyclePcs \ {"get_changed", "get_latest", "get_existing",
                            "alloc", "copy"}

Interrupt ==
    /\ pc \in InterruptPcs
    /\ UNCHANGED faults
    /\ End(Outcome("interrupted"), "returned", <<>>)
    /\ UNCHANGED <<kvVars, r2Vars, localVars, at_read, arrived, doc_status,
                   del_status, touched, allocated, r2_enabled, env, cycles, clock,
                   reports>>
    /\ UNCHANGED <<uploaded, copy_calls, mergeVars, coordVars, layoutVars>>

\* ----------------------------------------------------------- environment
\* A reporter marks grid g of area a as changed (SADD changed_grids:{a}).
\* The generator touches the change sets only in GetChangedGrids and in
\* ClearChangedGrids, so a report is interleaved between cycles and between
\* the read and the DEL of a cycle; every other interleaving gives the
\* generator the same view as one of these.
Report(a, g) ==
    /\ pc \in {"idle", "clear"}
    /\ UNCHANGED faults
    /\ reports < MaxReports
    /\ reports' = reports + 1
    /\ changed_grids' = [changed_grids EXCEPT ![a] = @ \cup {g}]
    /\ arrived' = IF a = area THEN arrived \cup {g} ELSE arrived
    /\ UNCHANGED <<tile_version, tile_version_global, r2Vars, localVars,
                   at_read, doc_status, del_status, touched, finished,
                   allocated, published, pc, r2_enabled, env, queue, cycles, result,
                   clock>>
    /\ UNCHANGED <<uploaded, copy_calls, mergeVars, coordVars, layoutVars>>

\* The wall clock reaches the next second.  The generator reads the clock
\* only in AllocateVersion, so the seconds that pass are interleaved there.
Tick ==
    /\ pc = "alloc"
    /\ UNCHANGED faults
    /\ clock < MaxClock
    /\ clock' = clock + 1
    /\ UNCHANGED <<kvVars, r2Vars, localVars, histVars, pc, r2_enabled, env, queue,
                   cycles, result, reports>>
    /\ UNCHANGED <<mergeVars, coordVars, layoutVars>>

\* TILE_GENERATION_AREAS: the lists get_enabled_areas() can return.
EnabledAreaLists ==
    {<<a>> : a \in Areas} \cup {<<"guangfu", "test_a">>}

AllTiles == calculate_affected_tiles(GridIds)

Next ==
    \/ \E redis_env \in BOOLEAN, r2_env \in BOOLEAN, connect_ok \in BOOLEAN,
          q \in EnabledAreaLists : StartRun(redis_env, r2_env, connect_ok, q)
    \/ BeginArea
    \/ CollectResult
    \/ EndRun
    \/ \E ok \in BOOLEAN : GetChangedGrids(ok)
    \/ \E get_ok \in BOOLEAN, list_ok \in BOOLEAN : GetLatestVersion(get_ok, list_ok)
    \/ \E list_ok \in BOOLEAN : GetExistingTiles(list_ok)
    \/ AllocateVersion
    \/ \E copied \in SUBSET AllTiles : CopyUnchangedTiles(copied)
    \/ \E t \in AllTiles, put_ok \in BOOLEAN : ProcessTile(t, put_ok)
    \/ TilesDone
    \/ \E ok \in BOOLEAN : PutVersionMetadata(ok)
    \/ \E ok \in BOOLEAN : PutBoundsMetadata(ok)
    \/ \E ok \in BOOLEAN : PutTilesetMetadata(ok)
    \/ \E get_ok \in BOOLEAN, put_ok \in BOOLEAN : UpdateVersionsList(get_ok, put_ok)
    \/ \E ok \in BOOLEAN : SetGlobalPointer(ok)
    \/ \E ok \in BOOLEAN : SetAreaPointer(ok)
    \/ \E ok \in BOOLEAN : ClearChangedGrids(ok)
    \/ Interrupt
    \/ \E a \in Areas, g \in GridIds : Report(a, g)
    \/ Tick

Spec == Init /\ [][Next]_vars

\* The steps of a running cycle.  The generator is one sequential process
\* and every store call returns or fails (the HTTP calls carry a timeout),
\* so a cycle that can take its next step takes it.
CycleStep ==
    \/ \E ok \in BOOLEAN : GetChangedGrids(ok)
    \/ \E get_ok \in BOOLEAN, list_ok \in BOOLEAN : GetLatestVersion(get_ok, list_ok)
    \/ \E list_ok \in BOOLEAN : GetExistingTiles(list_ok)
    \/ AllocateVersion
    \/ \E copied \in SUBSET AllTiles : CopyUnchangedTiles(copied)
    \/ \E t \in AllTiles, put_ok \in BOOLEAN : ProcessTile(t, put_ok)
    \/ TilesDone
    \/ \E ok \in BOOLEAN : PutVersionMetadata(ok)
    \/ \E ok \in BOOLEAN : PutBoundsMetadata(ok)
    \/ \E ok \in BOOLEAN : PutTilesetMetadata(ok)
    \/ \E get_ok \in BOOLEAN, put_ok \in BOOLEAN : UpdateVersionsList(get_ok, put_ok)
    \/ \E ok \in BOOLEAN : SetGlobalPointer(ok)
    \/ \E ok \in BOOLEAN : SetAreaPointer(ok)
    \/ \E ok \in BOOLEAN : ClearChangedGrids(ok)

\* main() has built the generator and enters the loop with one enabled
\* area, whose change set is as the reporters have left it.
RunInit ==
    /\ Fresh \/ AfterFirstPublish
    /\ \E a \in Areas :
           /\ queue = <<a>>
           /\ \E ids \in SUBSET GridIds :
                  changed_grids = [b \in Areas |-> IF b = a THEN ids ELSE {}]
    /\ pc = "loop"
    /\ r2_enabled \in BOOLEAN
    /\ env = AllCredentials
    /\ cycles = 0
    /\ result = NoResult
    /\ area = NoArea
    /\ changed = {}
    /\ previous_version = NoVersion
    /\ affected_tiles = {}
    /\ existing_tiles = {}
    /\ new_version = NoVersion
    /\ pending = {}
    /\ success_count = 0
    /\ copied_count = 0
    /\ clock = FirstClock
    /\ reports = 0
    /\ faults = 0
    /\ at_read = {}
    /\ arrived = {}
    /\ doc_status = NoDocStatus
    /\ del_status = "none"
    /\ touched = {}
    /\ uploaded = {}
    /\ copy_calls = {}
    /\ NoMerge
    /\ NoCoord
    /\ NoLayout

RunNext ==
    \/ BeginArea
    \/ CollectResult
    \/ EndRun
    \/ CycleStep
    \/ Interrupt
    \/ Tick

FairSpec == RunInit /\ [][RunNext]_vars /\ WF_vars(CycleStep)

\* ------------------------------------------- one iteration of the tile loop
\* The body of the per-tile loop for one tile: the object stored for the
\* tile under the previous version, the changed states and the previous
\* version are the inputs.
MergeTiles == {<<0, 0>>, <<1, 0>>}

MergeInit ==
    /\ AfterFirstPublish
    /\ Idle
    /\ previous_version \in {NoVersion, str(FirstClock)}
    /\ mpc = "download"
    /\ tile \in MergeTiles
    /\ stored_png \in StoredObjects
    /\ changed_states \in ChangedStateMaps
    /\ existing_tile_bytes = None
    /\ png_bytes = None
    /\ coverage = None
    /\ hget_reply = <<>>
    /\ NoCoord
    /\ NoLayout

\* existing_tile_bytes = None
\* if previous_version:
\*     existing_tile_bytes = self.download_existing_tile(...)
DownloadExistingTile(get_ok) ==
    /\ mpc = "download"
    /\ previous_version = NoVersion => get_ok      \* no get is made
    /\ existing_tile_bytes' = IF previous_version # NoVersion
                              THEN download_existing_tile(get_ok)
                              ELSE None
    /\ mpc' = "merge"
    /\ UNCHANGED <<cycleVars, coordVars, layoutVars, tile, stored_png, changed_states,
                   png_bytes, coverage, hget_reply>>

\* png_bytes = self.generate_incremental_tile(...); an exception skips the
\* tile.
GenerateIncrementalTile ==
    /\ mpc = "merge"
    /\ LET bytes == generate_incremental_tile(tile, changed_states,
                                              existing_tile_bytes)
       IN /\ png_bytes' = bytes
          /\ mpc' = IF bytes = IndexError THEN "skipped" ELSE "upload"
    /\ UNCHANGED <<cycleVars, coordVars, layoutVars, tile, stored_png, changed_states,
                   existing_tile_bytes, coverage, hget_reply>>

\* "coverage" of generate_version_metadata(version, stats, affected_tiles,
\* grid_coverage).
generate_version_metadata(affected, grid_coverage) ==
    [affected_tiles |-> Cardinality(affected),
     total_reported_grids |->
         Cardinality({g \in DOMAIN grid_coverage : grid_coverage[g] # -1}),
     clear_grids |->
         Cardinality({g \in DOMAIN grid_coverage : grid_coverage[g] = 0}),
     muddy_grids |->
         Cardinality({g \in DOMAIN grid_coverage : grid_coverage[g] = 1}),
     undefined_grids |->
         Cardinality({g \in DOMAIN grid_coverage : grid_coverage[g] = -1})]

\* upload_tms_metadata(new_version, affected_tiles_list, changed_states)
\* after a loop over the affected tiles that processed the tile.
UploadTmsMetadata ==
    /\ mpc = "upload"
    /\ tile \in calculate_affected_tiles(DOMAIN changed_states)
    /\ coverage' = generate_version_metadata(
                        calculate_affected_tiles(DOMAIN changed_states),
                        changed_states)
    /\ mpc' = "metadata"
    /\ UNCHANGED <<cycleVars, coordVars, layoutVars, tile, stored_png,
                   changed_states, existing_tile_bytes, png_bytes,
                   hget_reply>>

MergeNext ==
    \/ \E get_ok \in BOOLEAN : DownloadExistingTile(get_ok)
    \/ GenerateIncrementalTile
    \/ UploadTmsMetadata

MergeSpec == MergeInit /\ [][MergeNext]_vars

\* ================================================================ claims
\* The tiles that have a raster stored under version v.
StoredTiles(v) == {k[2] : k \in {j \in tiles : j[1] = v}}

\* s is ordered newest-first, without repetition.
NewestFirst(s) == \A i \in 1..Len(s), j \in 1..Len(s) :
                      i < j => StrLess(s[j], s[i])

\* C1: the DEL of the area's change set is issued only after all four
\* metadata documents of the new version have been written successfully.
C1_ClearOnlyAfterMetadata ==
    del_status # "none" => \A d \in Docs : doc_status[d] = "ok"

\* C2: a cycle in which the write of one of the four metadata documents
\* failed does not report success.
C2_FailedWriteFailsCycle ==
    (pc = "returned" /\ \E d \in Docs : doc_status[d] = "failed")
        => ~result.success

\* C3 (as claimed): after every cycle that reports success, the area's
\* change set reads empty.
C3_SuccessEmptiesChangeSet ==
    (pc = "returned" /\ result.success) => changed_grids[area] = {}

\* C3 (amended): after every cycle that reports success and whose DEL
\* succeeded, the area's change set reads empty.
C3_SuccessWithDelEmptiesChangeSet ==
    (pc = "returned" /\ result.success /\ del_status = "ok")
        => changed_grids[area] = {}

C3_Witness ==
    /\ pc = "returned"
    /\ result.success
    /\ del_status = "ok"
    /\ at_read # {}
    /\ changed_grids[area] = {}

\* C4: a cycle that ends without reporting success has issued no DEL and
\* leaves the area's change set as it was read (plus what reporters added
\* in the meantime).
C4_FailureKeepsChangeSet ==
    (pc = "returned" /\ ~result.success)
        => /\ del_status = "none"
           /\ changed_grids[area] = at_read \cup arrived

C4_Witness ==
    /\ pc = "returned"
    /\ result.tag = "interrupted"
    /\ StoredTiles(new_version) # {}
    /\ at_read # {}
    /\ changed_grids[area] = at_read

\* C5: a cycle puts and copies only under its own new version, which
\* differs from the previous version it reads from, and no cycle writes
\* under the version of a cycle that has finished.
C5_VersionImmutable ==
    /\ touched \subseteq {new_version}
    /\ new_version # NoVersion => new_version # previous_version
    /\ pc \in CyclePcs => touched \cap finished = {}

\* C6: the versions allocated for an area are strictly increasing.
C6_StrictlyMonotonic ==
    \A a \in Areas : \A i \in 1..Len(allocated[a]), j \in 1..Len(allocated[a]) :
        i < j => StrLess(allocated[a][i], allocated[a][j])

\* C7: the tiles list of every published bounds descriptor is the set of
\* tiles stored under its version, and tile_count is the size of that set.
C7_BoundsListStoredTiles ==
    \A v \in Versions : bounds_metadata[v].exists =>
        /\ bounds_metadata[v].tiles = StoredTiles(v)
        /\ bounds_metadata[v].tile_count = Cardinality(StoredTiles(v))

\* C8: after a successful publish cycle the version index lists every
\* version published so far exactly once, the cycle's version included,
\* newest first.
C8_IndexListsPublished ==
    (pc = "returned" /\ result.success /\ r2_enabled) =>
        /\ versions_json.exists
        /\ Range(versions_json.versions) = published
        /\ new_version \in Range(versions_json.versions)
        /\ NewestFirst(versions_json.versions)

\* C9: latest_version of the version index is the first entry of its
\* newest-first versions list.
C9_LatestIsNewest ==
    versions_json.exists =>
        versions_json.latest_version = Head(versions_json.versions)

\* C10: after a cycle that reports success, every tile stored under the
\* previous version is stored under the new version.
C10_NoTileLost ==
    (pc = "returned" /\ result.success /\ previous_version # NoVersion) =>
        StoredTiles(previous_version) \subseteq StoredTiles(new_version)

\* ------------------------------------------------- claims on the tile merge
PaletteColors == {COLOR_PALETTE[s] : s \in DOMAIN COLOR_PALETTE}

\* bytes is a Raster: a TILE_SIZE x TILE_SIZE image of palette colours.
IsRaster(bytes) ==
    /\ bytes.kind = "png"
    /\ bytes.size = TILE_SIZE
    /\ \A p \in DOMAIN bytes.px : bytes.px[p] \in PaletteColors

\* The pixels of tile t that a changed point maps to.
Addressed(t, states) ==
    {local(g, t) : g \in {h \in DOMAIN states : in_tile(h, t)}}

\* C11: in a regenerated tile, every pixel that no changed point maps to
\* has the state it had in the previous version's raster of the tile.
C11_UntouchedPixelsKept ==
    (mpc = "upload" /\ previous_version # NoVersion /\ IsRaster(stored_png))
        => \A p \in InImage(TILE_SIZE) \ Addressed(tile, changed_states) :
               png_bytes.px[p] = stored_png.px[p]

\* C12: the merged pixel of every changed point inside the tile is the
\* palette colour of the point's new state, whatever the existing raster
\* held there; a new state Undefined gives a fully transparent pixel.
C12_ChangedPointsWin ==
    mpc = "upload" =>
        \A g \in DOMAIN changed_states :
            (/\ in_tile(g, tile)
             /\ local(g, tile) \in DOMAIN png_bytes.px
             /\ changed_states[g] \in DOMAIN COLOR_PALETTE)
                => /\ png_bytes.px[local(g, tile)] = COLOR_PALETTE[changed_states[g]]
                   /\ changed_states[g] = STATE_UNDEFINED
                          => png_bytes.px[local(g, tile)] = <<0, 0, 0, 0>>

C12_Witness ==
    /\ mpc = "upload"
    /\ tile = <<0, 0>>
    /\ existing_tile_bytes.kind = "png"
    /\ existing_tile_bytes.px[<<0, 0>>] = COLOR_PALETTE[STATE_CLEAR]
    /\ existing_tile_bytes.px[<<44, 0>>] = COLOR_PALETTE[STATE_MUDDY]
    /\ DOMAIN changed_states = {<<0, 0>>, <<44, 0>>}
    /\ changed_states[<<0, 0>>] = STATE_MUDDY
    /\ changed_states[<<44, 0>>] = STATE_UNDEFINED
    /\ png_bytes.px[<<0, 0>>] = <<139, 69, 19, 180>>
    /\ png_bytes.px[<<44, 0>>] = <<0, 0, 0, 0>>

\* C13: a merge with no changed point inside the tile yields a raster that
\* decodes to the pixel states of the existing raster (so a store-side copy
\* of a raster and its re-render are the same grid), and merging the result
\* again changes nothing.
C13_MergeIdempotent ==
    (mpc = "upload" /\ Addressed(tile, changed_states) = {}) =>
        /\ existing_tile_bytes # None
               => parse_existing_tile_pixels(png_bytes)
                      = parse_existing_tile_pixels(existing_tile_bytes)
        /\ IsRaster(existing_tile_bytes) => png_bytes = existing_tile_bytes
        /\ generate_incremental_tile(tile, changed_states, png_bytes) = png_bytes

C13_Witness ==
    /\ mpc = "upload"
    /\ Addressed(tile, changed_states) = {}
    /\ DOMAIN changed_states # {}
    /\ IsRaster(existing_tile_bytes)
    /\ existing_tile_bytes.px[<<0, 0>>] = COLOR_PALETTE[STATE_CLEAR]
    /\ existing_tile_bytes.px[<<44, 0>>] = COLOR_PALETTE[STATE_MUDDY]
    /\ png_bytes = existing_tile_bytes

\* C14: every pixel of a raster the merge produces is the Clear colour, the
\* Muddy colour or fully transparent, for any existing bytes and any
\* changed state values.
C14_PaletteInvariant ==
    mpc = "upload" =>
        /\ png_bytes.size = TILE_SIZE
        /\ \A p \in DOMAIN png_bytes.px :
               png_bytes.px[p] \in {<<0, 255, 0, 120>>, <<139, 69, 19, 180>>,
                                    <<0, 0, 0, 0>>}

C14_Witness ==
    /\ mpc = "upload"
    /\ existing_tile_bytes.kind = "png"
    /\ \E p \in InImage(TILE_SIZE) \ Addressed(tile, changed_states) :
           existing_tile_bytes.px[p] = ForeignColor
    /\ \E g \in DOMAIN changed_states :
           in_tile(g, tile) /\ changed_states[g] \notin DOMAIN COLOR_PALETTE
    /\ \A p \in DOMAIN png_bytes.px : png_bytes.px[p] \in PaletteColors

\* C15: a tile that fails does not stop the per-tile loop, and
\* tiles_processed of the result is the number of affected tiles whose
\* raster the cycle stored under the new version.
C15_CountsStoredTiles ==
    /\ (pc = "returned" /\ result.tag \in {"published", "no_tiles_processed"})
           => pending = {}
    /\ (pc = "returned" /\ result.success)
           => /\ uploaded \subseteq affected_tiles \cap StoredTiles(new_version)
              /\ result.tiles_processed = Cardinality(uploaded)
              /\ result.tiles_processed <= result.affected_tiles

\* C16: no failed store call leaves the cycle as an exception, and the
\* loop over the areas goes on after a cycle that met a failure.
C16_NoExceptionEscapes ==
    pc = "returned" => result.tag # "exception"

\* C17: a run that lacks the credentials of the key-value store or of the
\* object store starts no cycle: it reads no change set, allocates no
\* version, writes nothing and clears no change set.
C17_MissingCredentialsAbort ==
    (~env.redis \/ ~env.r2) => pc \notin CyclePcs \cup {"returned"}

\* C18: a cycle that reads an empty change set returns a successful no-op
\* result; it allocates no version, writes and copies nothing and issues
\* no DEL.
C18_EmptyChangeSetNoOp ==
    (pc = "returned" /\ changed = {}) =>
        /\ result.success
        /\ new_version = NoVersion
        /\ touched = {}
        /\ doc_status = NoDocStatus
        /\ del_status = "none"

\* C19: a non-empty change set that resolves to no tile ends the cycle with
\* the 'no tiles to update' result, which is neither the result of an empty
\* change set nor that of a publish nor an exception; no version is
\* allocated.
C19_NoTilesDistinguished ==
    (pc = "returned" /\ changed # {} /\ calculate_affected_tiles(changed) = {}) =>
        /\ result.tag = "no_tiles_to_update"
        /\ result # Outcome("none")
        /\ result # SuccessResult
        /\ result # Outcome("exception")
        /\ new_version = NoVersion
        /\ touched = {}

C19_Witness ==
    /\ pc = "returned"
    /\ changed = {<<7>>}
    /\ result = [NoResult EXCEPT !.tag = "no_tiles_to_update"]
    /\ new_version = NoVersion

\* A grid id that parses to a point outside the GRID_WIDTH x GRID_HEIGHT
\* grid of the area.
OutOfBounds(g) ==
    /\ Len(g) = 2
    /\ ~(0 <= g[1] /\ g[1] < GRID_WIDTH /\ 0 <= g[2] /\ g[2] < GRID_HEIGHT)

\* C20: a cycle whose change set holds only points outside the area's
\* bounds reports success with zero tiles processed and leaves the change
\* set cleared.
C20_OutOfBoundsClears ==
    (pc = "returned" /\ changed # {} /\ \A g \in changed : OutOfBounds(g)) =>
        /\ result.success
        /\ result.tiles_processed = 0
        /\ changed_grids[area] = {}

\* ------------------------------------------------ claims on the two areas
\* C21: a cycle of one area puts and copies under no version prefix that a
\* cycle of another area allocated, and the previous version it reads its
\* lineage from is no version of another area.
C21_AreasIsolated ==
    pc \in CyclePcs =>
        \A b \in Areas \ {area} :
            /\ touched \cap Range(allocated[b]) = {}
            /\ previous_version # NoVersion
                   => previous_version \notin Range(allocated[b])

\* ------------------------------------------------ claims on the changed keys
\* The entries of states whose key unpacks into two integers.
Parseable(states) ==
    [g \in {h \in DOMAIN states : Len(h) = 2} |-> states[g]]

\* C23: a changed key that does not parse is skipped by the tile resolution
\* and by the merge: the merge ends as it would without the key (no error
\* comes out of it on account of the key), and the tiles resolved and the
\* raster painted are those of the other keys alone.
C23_UnparseableKeySkipped ==
    mpc \in {"upload", "skipped"} =>
        /\ calculate_affected_tiles(DOMAIN changed_states)
               = calculate_affected_tiles(DOMAIN Parseable(changed_states))
        /\ png_bytes = generate_incremental_tile(tile, Parseable(changed_states),
                                                 existing_tile_bytes)
        /\ png_bytes.kind \in {"png", "IndexError"}

C23_Witness ==
    /\ mpc = "upload"
    /\ tile = <<0, 0>>
    /\ DOMAIN changed_states = {<<7>>, <<0, 0>>}
    /\ changed_states[<<0, 0>>] = STATE_MUDDY
    /\ calculate_affected_tiles(DOMAIN changed_states) = {<<0, 0>>}
    /\ png_bytes.px[<<0, 0>>] = COLOR_PALETTE[STATE_MUDDY]

\* ------------------------------------------------ claims on the palette
\* C27 (as claimed): a changed point whose state is Muddy is rendered at its
\* pixel as RGBA (139, 69, 19, 200).
C27_MuddyRenderedAlpha200 ==
    mpc = "upload" =>
        \A g \in DOMAIN changed_states :
            (/\ in_tile(g, tile)
             /\ local(g, tile) \in DOMAIN png_bytes.px
             /\ changed_states[g] = STATE_MUDDY)
                => png_bytes.px[local(g, tile)] = <<139, 69, 19, 200>>

\* C27 (amended): a changed point whose state is Muddy is rendered at its
\* pixel as RGBA (139, 69, 19, 180).
C27_MuddyRenderedAlpha180 ==
    mpc = "upload" =>
        \A g \in DOMAIN changed_states :
            (/\ in_tile(g, tile)
             /\ local(g, tile) \in DOMAIN png_bytes.px
             /\ changed_states[g] = STATE_MUDDY)
                => png_bytes.px[local(g, tile)] = <<139, 69, 19, 180>>

C27_Witness ==
    /\ mpc = "upload"
    /\ tile = <<0, 0>>
    /\ existing_tile_bytes.kind = "png"
    /\ existing_tile_bytes.px[<<44, 0>>] = <<139, 69, 19, 200>>
    /\ <<44, 0>> \in DOMAIN changed_states
    /\ changed_states[<<44, 0>>] = STATE_MUDDY
    /\ png_bytes.px[<<44, 0>>] = <<139, 69, 19, 180>>

\* ------------------------------------------------ claims on the step order
\* The position of a step in generate_intelligent_tiles_for_area.
Rank ==
    [p \in CyclePcs \cup {"returned"} |->
        CASE p = "get_changed" -> 1
          [] p = "get_latest" -> 2
          [] p = "get_existing" -> 3
          [] p = "alloc" -> 4
          [] p = "copy" -> 5
          [] p = "tiles" -> 6
          [] p = "meta_version" -> 7
          [] p = "meta_bounds" -> 8
          [] p = "meta_tileset" -> 9
          [] p = "meta_index" -> 10
          [] p = "meta_pointer" -> 11
          [] p = "set_pointer" -> 12
          [] p = "clear" -> 13
          [] p = "returned" -> 14]

\* The metadata step is over: with the object store enabled all four
\* document writes have been attempted.
MetadataStepDone ==
    /\ pending = {}
    /\ r2_enabled => \A d \in Docs : doc_status[d] # "none"

\* C29: every cycle ends (it returns a result or is ended by an exception),
\* and it takes its steps in the order read, resolve, copy and upload,
\* metadata, pointer, clear: nothing is put or copied before the change set
\* is read and resolved, no metadata document is written while an affected
\* tile is still to be attempted, and the version pointers are set and the
\* change set is cleared only after the metadata step.
C29_StepsInOrderAndCycleEnds ==
    /\ [](pc \in {"get_changed", "get_latest", "get_existing", "alloc"}
              => touched = {} /\ uploaded = {})
    /\ [](touched # {} => changed # {} /\ affected_tiles # {})
    /\ []((\E d \in Docs : doc_status[d] # "none") => pending = {})
    /\ [](del_status # "none" => MetadataStepDone)
    /\ [][/\ pc \in CyclePcs
              => pc' \in CyclePcs \cup {"returned"} /\ Rank[pc'] >= Rank[pc]
          /\ tile_version' # tile_version
              => pc = "set_pointer" /\ MetadataStepDone
          /\ tile_version_global' # tile_version_global
              => pc = "meta_pointer" /\ MetadataStepDone
          /\ (pc \in CyclePcs /\ changed_grids'[area] # changed_grids[area]
                  /\ arrived' = arrived)
              => pc = "clear" /\ MetadataStepDone]_vars
    /\ (pc \in CyclePcs ~> pc = "returned")

C29_Witness ==
    /\ pc = "returned"
    /\ result.tag = "published"
    /\ uploaded # {}
    /\ \A d \in Docs : doc_status[d] = "ok"
    /\ tile_version[area] = new_version
    /\ del_status = "ok"
    /\ changed_grids[area] = {}

\* ================================================= Web Mercator coordinates
\* utils/coordinate_utils.py.  Degrees are carried in units of 1e-5 degree,
\* pixel coordinates of lat_lon_to_pixel in units of 1/DegPerPixel0 pixel:
\* 360.0 / TILE_SIZE = 1.40625 degrees of longitude per pixel at zoom 0.
Deg180 == 18000000
DegPerPixel0 == 140625
MAX_LATITUDE == 8505110

\* math.log(math.tan(lat_rad) + 1.0 / math.cos(lat_rad)) / math.pi of the
\* latitudes in use, scaled by 180 degrees.
Mercator ==
    [lat \in {0, 2366770, -2366770, 2366780, 6000000, MAX_LATITUDE,
              -MAX_LATITUDE} |->
        CASE lat = 0 -> 0
          [] lat = 2366770 -> 2437101
          [] lat = -2366770 -> -2437101
          [] lat = 2366780 -> 2437111
          [] lat = 6000000 -> 7545613
          [] lat = MAX_LATITUDE -> 17999967
          [] lat = -MAX_LATITUDE -> -17999967]

\* math.degrees(math.atan(math.sinh(math.pi * a))) for a = k / 8.
InverseMercatorTable ==
    <<2194305, 4097990, 5577657, 6651326, 7401954, 7917133, 8267628,
      8505113, 8665723, 8774251, 8847556, 8897062, 8930492, 8953066,
      8968308, 8978601>>

InverseMercator(k) ==
    IF k = 0 THEN 0
    ELSE IF k > 0 THEN InverseMercatorTable[k]
    ELSE -InverseMercatorTable[-k]

\* lat = max(min(lat, 85.0511), -85.0511)
ClampLatitude(lat) ==
    IF lat > MAX_LATITUDE THEN MAX_LATITUDE
    ELSE IF lat < -MAX_LATITUDE THEN -MAX_LATITUDE
    ELSE lat

\* x_pixel = (lon + 180.0) / 360.0 * pixel_count
\* y_pixel = (1.0 - log(...) / pi) / 2.0 * pixel_count
lat_lon_to_pixel(lat, lon, zoom) ==
    <<(lon + Deg180) * 2^zoom,
      (Deg180 - Mercator[ClampLatitude(lat)]) * 2^zoom>>

\* (int(pixel_x // TILE_SIZE), int(pixel_y // TILE_SIZE))
pixel_to_tile(pixel_x, pixel_y) ==
    <<pixel_x \div (TILE_SIZE * DegPerPixel0),
      pixel_y \div (TILE_SIZE * DegPerPixel0)>>

lat_lon_to_tile_coords(lat, lon, zoom) ==
    LET pixel == lat_lon_to_pixel(lat, lon, zoom)
        t == pixel_to_tile(pixel[1], pixel[2])
    IN <<t[1], t[2], zoom>>

\* Mutant: the east edge of a tile is its last pixel column.
tile_to_lat_lon_bounds_last_column(tile_x, tile_y, zoom) ==
    LET pixel_count == 2^zoom * TILE_SIZE
        min_x_pixel == tile_x * TILE_SIZE
        max_x_pixel == (tile_x + 1) * TILE_SIZE - 1
        min_y_pixel == tile_y * TILE_SIZE
        max_y_pixel == (tile_y + 1) * TILE_SIZE
        max_lat_y == (16 * min_y_pixel) \div pixel_count - 8
        min_lat_y == (16 * max_y_pixel) \div pixel_count - 8
    IN [minLat |-> InverseMercator(8 - min_lat_y),
        maxLat |-> InverseMercator(8 - max_lat_y),
        minLng |-> (min_x_pixel * DegPerPixel0) \div 2^zoom - Deg180,
        maxLng |-> (max_x_pixel * DegPerPixel0) \div 2^zoom - Deg180]

\* min_lng = (min_x_pixel / pixel_count) * 360.0 - 180.0
\* max_lat_y = (min_y_pixel / pixel_count) * 2.0 - 1.0, held in eighths
\* max_lat = degrees(atan(sinh(pi * (1 - max_lat_y))))
tile_to_lat_lon_bounds(tile_x, tile_y, zoom) ==
    LET pixel_count == 2^zoom * TILE_SIZE
        min_x_pixel == tile_x * TILE_SIZE
        max_x_pixel == (tile_x + 1) * TILE_SIZE
        min_y_pixel == tile_y * TILE_SIZE
        max_y_pixel == (tile_y + 1) * TILE_SIZE
        max_lat_y == (16 * min_y_pixel) \div pixel_count - 8
        min_lat_y == (16 * max_y_pixel) \div pixel_count - 8
    IN [minLat |-> InverseMercator(8 - min_lat_y),
        maxLat |-> InverseMercator(8 - max_lat_y),
        minLng |-> (min_x_pixel * DegPerPixel0) \div 2^zoom - Deg180,
        maxLng |-> (max_x_pixel * DegPerPixel0) \div 2^zoom - Deg180]

\* ------------------------------------------------- changed coordinate keys
\* A key "lat_lon" is modelled by the tuple of its '_'-separated parts; a
\* part is a decimal number, held in units of 1e-5 degree, or text that
\* float() rejects.
Num(v) == [num |-> TRUE, val |-> v]
Text == [num |-> FALSE, val |-> 0]

CoordKeyList ==
    << <<Num(2366770), Num(12143700)>>,     \* "23.6677_121.4370"
       <<Num(2366780), Num(12143700)>>,     \* "23.6678_121.4370"
       <<Num(8600000), Num(0)>>,            \* "86.0000_0.0000"
       <<Num(8600000), Num(-9000000)>>,     \* "86.0000_-90.0000"
       <<Num(-2366770), Num(12143700)>>,    \* "-23.6677_121.4370"
       <<Num(2366770)>>,                    \* "23.6677"
       <<Num(2366770), Text>> >>            \* "23.6677_abc"

CoordKeys == Range(CoordKeyList)

\* AREA_CONFIGS['guangfu']['bounds'], and the bounds of an area that spans
\* the northern hemisphere east of 90 degrees west.
AreaBounds ==
    {[minLat |-> 2365396, maxLat |-> 2368137,
      minLng |-> 12141760, maxLng |-> 12145657],
     [minLat |-> 0, maxLat |-> 8900000,
      minLng |-> -9000000, maxLng |-> 18000000]}

ValueError == [kind |-> "ValueError"]

\* parts = key.split('_'); if len(parts) != 2: raise ValueError
key_to_coords(key) ==
    IF Len(key) # 2 THEN ValueError
    ELSE [kind |-> "coords", lat_str |-> key[1], lon_str |-> key[2]]

\* lat = float(lat_str); lon = float(lon_str) succeed.
IsFloat(part) == part.num

\* Mutant: the area bounds are not tested.
calculate_affected_tiles_from_coords_unbounded(changed_coords, bounds, zoom) ==
    {lat_lon_to_tile_coords(c.lat_str.val, c.lon_str.val, zoom) :
        c \in {d \in changed_coords :
                  /\ IsFloat(d.lat_str)
                  /\ IsFloat(d.lon_str)}}

\* A point is kept when area_bounds['minLat'] <= lat <= area_bounds['maxLat']
\* and area_bounds['minLng'] <= lon <= area_bounds['maxLng']; a ValueError of
\* float() skips the point.
calculate_affected_tiles_from_coords(changed_coords, bounds, zoom) ==
    {lat_lon_to_tile_coords(c.lat_str.val, c.lon_str.val, zoom) :
        c \in {d \in changed_coords :
                  /\ IsFloat(d.lat_str)
                  /\ IsFloat(d.lon_str)
                  /\ bounds.minLat <= d.lat_str.val
                  /\ d.lat_str.val <= bounds.maxLat
                  /\ bounds.minLng <= d.lon_str.val
                  /\ d.lon_str.val <= bounds.maxLng}}

\* The keys key_to_coords accepts are converted, the others are skipped.
calculate_affected_tiles_standard(keys, bounds, zoom) ==
    LET changed_coords == {key_to_coords(k) : k \in {j \in keys : Len(j) = 2}}
    IN calculate_affected_tiles_from_coords(changed_coords, bounds, zoom)

\* --------------------------------------------------------- states of points
\* The reply of HMGET geo:{area}:{key} Score_0 Score_1: the request failed
\* (_redis_request returned None), the result holds fewer than two entries,
\* or it holds the two scores; a score is null, a number or other text.
Nil == [t |-> "nil", v |-> 0]
Score(n) == [t |-> "num", v |-> n]
BadScore == [t |-> "text", v |-> 0]
Scores(a, b) == [kind |-> "scores", Score_0 |-> a, Score_1 |-> b]

Replies ==
    << [kind |-> "none", Score_0 |-> Nil, Score_1 |-> Nil],
       [kind |-> "short", Score_0 |-> Nil, Score_1 |-> Nil],
       Scores(Nil, Nil),
       Scores(Score(1), Score(2)),
       Scores(Score(2), Score(1)),
       Scores(Score(1), Score(1)),
       Scores(Nil, Score(1)),
       Scores(BadScore, Score(2)),
       Scores(Score(0), Nil),
       Scores(Score(1), BadScore) >>

\* The geo hashes of an area: every key is given each reply in some store.
GeoStores ==
    {[k \in CoordKeys |->
        LET i == CHOOSE j \in 1..Len(CoordKeyList) : CoordKeyList[j] = k
        IN Replies[((i + s) % Len(Replies)) + 1]] : s \in 1..Len(Replies)}

\* float(scores[i]) if scores[i] else 0.0
score_value(s) == IF s.t = "nil" THEN 0 ELSE s.v

\* Mutant: equal scores give Muddy.
coord_state_ties_muddy(reply) ==
    IF reply.kind # "scores" THEN STATE_CLEAR
    ELSE IF reply.Score_0.t = "text" \/ reply.Score_1.t = "text"
    THEN STATE_CLEAR
    ELSE IF score_value(reply.Score_1) >= score_value(reply.Score_0)
    THEN STATE_MUDDY
    ELSE STATE_CLEAR

\* The body of the loop of read_changed_coords_states for one key: a failed
\* request, a short result and the ValueError of float() give STATE_CLEAR.
coord_state(reply) ==
    IF reply.kind # "scores" THEN STATE_CLEAR
    ELSE IF reply.Score_0.t = "text" \/ reply.Score_1.t = "text"
    THEN STATE_CLEAR
    ELSE IF score_value(reply.Score_1) > score_value(reply.Score_0)
    THEN STATE_MUDDY
    ELSE STATE_CLEAR

\* if not changed_coord_keys: return {}
read_changed_coords_states(keys, store) ==
    [k \in keys |-> coord_state(store[k])]

\* ------------------------------------------------------ painting of a tile
\* <<a * b \div c, a * b % c>> for a >= 0, b >= 0 and c > 0, the product
\* formed by doubling so that every intermediate value stays below 3 * c.
RECURSIVE MulDivMod(_, _, _)
MulDivMod(a, b, c) ==
    IF b = 0 THEN <<0, 0>>
    ELSE LET h == MulDivMod(a, b \div 2, c)
             odd == b % 2 = 1
             rest == 2 * h[2] + (IF odd THEN a % c ELSE 0)
         IN <<2 * h[1] + (IF odd THEN a \div c ELSE 0) + rest \div c,
              rest % c>>

\* bounds['minLat'] <= lat <= bounds['maxLat'] and
\* bounds['minLng'] <= lon <= bounds['maxLng'], for a key that
\* key_to_coords and float() accept.
in_tile_bounds(key, bounds) ==
    /\ Len(key) = 2
    /\ IsFloat(key[1])
    /\ IsFloat(key[2])
    /\ bounds.minLat <= key[1].val
    /\ key[1].val <= bounds.maxLat
    /\ bounds.minLng <= key[2].val
    /\ key[2].val <= bounds.maxLng

\* pixel_x = int(x_ratio * (TILE_SIZE - 1))
\* pixel_y = TILE_SIZE - 1 - int(y_ratio * (TILE_SIZE - 1))
tile_pixel(key, bounds) ==
    <<MulDivMod(key[2].val - bounds.minLng, TILE_SIZE - 1,
                bounds.maxLng - bounds.minLng)[1],
      TILE_SIZE - 1 - MulDivMod(key[1].val - bounds.minLat, TILE_SIZE - 1,
                                bounds.maxLat - bounds.minLat)[1]>>

\* The assignments pixels[pixel_x, pixel_y] = color the loop executes; the
\* result is b'' when there is none.
generate_standard_tile_content(tile_x, tile_y, tile_z, states) ==
    LET bounds == tile_to_lat_lon_bounds(tile_x, tile_y, tile_z)
        drawn == {k \in DOMAIN states :
                     /\ in_tile_bounds(k, bounds)
                     /\ tile_pixel(k, bounds)[1] \in 0..(TILE_SIZE - 1)
                     /\ tile_pixel(k, bounds)[2] \in 0..(TILE_SIZE - 1)
                     /\ palette_get(states[k])[4] > 0}
    IN [kind |-> IF drawn = {} THEN "empty" ELSE "png",
        painted |-> {[key |-> k, pixel |-> tile_pixel(k, bounds),
                      color |-> palette_get(states[k])] : k \in drawn}]

\* ------------------------------------------------- the names of the module
\* The top-level names utils/coordinate_utils.py defines, and the names
\* test_coordinate_mapping.py imports from it.
coordinate_utils_names ==
    {"TMSConfig", "lat_lon_to_pixel", "pixel_to_tile",
     "lat_lon_to_tile_coords", "tile_to_lat_lon_bounds",
     "format_coords_4decimal", "coords_to_key", "key_to_coords",
     "calculate_distance", "get_geo_radius_coords",
     "calculate_affected_tiles_from_coords", "is_within_simple_bounds",
     "is_valid_zoom", "get_recommended_zoom"}

test_imports ==
    {"lat_lon_to_tile_coords", "tile_to_lat_lon_bounds",
     "lat_lon_to_tile_pixel", "TMSConfig"}

\* ----------------------------------------- runs of the coordinate functions
Zooms == 0..MaxZoom

SampleLatitudes == {0, 2366770, -2366770, 6000000, 8600000, -8600000}
SampleLongitudes == {12143700, 0, -9000000, 18000000}

TileAddresses ==
    {<<x, y, z>> : x \in 0..(2^MaxZoom - 1), y \in 0..(2^MaxZoom - 1),
                   z \in Zooms}

CoordRest ==
    /\ Fresh
    /\ Idle
    /\ previous_version = NoVersion
    /\ NoMerge
    /\ NoLayout

\* Steps 2 to 4 of generate_standard_tiles_for_area for a changed set.
PipelineInit ==
    /\ cpc = "resolve"
    /\ zoom_level \in Zooms
    /\ area_bounds \in AreaBounds
    /\ changed_coord_keys \in
           {S \in SUBSET CoordKeys : S # {} /\ Cardinality(S) <= MaxCoords}
    /\ geo_scores \in GeoStores
    /\ standard_tiles = {}
    /\ coord_states = <<>>
    /\ tile_content = <<>>
    /\ probe = <<0, 0>>
    /\ tile_coords = <<0, 0, 0>>
    /\ tile_bounds = <<>>

\* A point is projected and the bounds of its tile and of the tile's east
\* and south neighbours are computed, as test_coordinate_precision and
\* test_tile_boundaries do.
ProbeInit ==
    /\ cpc = "probe"
    /\ zoom_level \in Zooms
    /\ probe \in SampleLatitudes \X SampleLongitudes
    /\ tile_coords = <<0, 0, 0>>
    /\ area_bounds = NoBox
    /\ changed_coord_keys = {}
    /\ geo_scores = <<>>
    /\ standard_tiles = {}
    /\ coord_states = <<>>
    /\ tile_content = <<>>
    /\ tile_bounds = <<>>

\* The bounds of a tile address and of its neighbours are computed.
TileInit ==
    /\ cpc = "bounds"
    /\ tile_coords \in {t \in TileAddresses : /\ t[1] < 2^t[3]
                                              /\ t[2] < 2^t[3]}
    /\ zoom_level = tile_coords[3]
    /\ probe = <<>>                        \* no point was projected
    /\ area_bounds = NoBox
    /\ changed_coord_keys = {}
    /\ geo_scores = <<>>
    /\ standard_tiles = {}
    /\ coord_states = <<>>
    /\ tile_content = <<>>
    /\ tile_bounds = <<>>

\* test_coordinate_mapping.py is started.
ImportInit ==
    /\ cpc = "import"
    /\ zoom_level = 0
    /\ area_bounds = NoBox
    /\ changed_coord_keys = {}
    /\ geo_scores = <<>>
    /\ standard_tiles = {}
    /\ coord_states = <<>>
    /\ tile_content = <<>>
    /\ probe = <<0, 0>>
    /\ tile_coords = <<0, 0, 0>>
    /\ tile_bounds = <<>>

CoordInit ==
    /\ CoordRest
    /\ geo_points = {}
    /\ geo_key = <<>>
    /\ key_coords = <<>>
    /\ PipelineInit \/ ProbeInit \/ TileInit \/ ImportInit

\* affected_tiles = self.calculate_affected_tiles_standard(...)
\* if not affected_tiles: return {'success': False, ...}
CalculateAffectedTilesStandard ==
    /\ cpc = "resolve"
    /\ standard_tiles' = calculate_affected_tiles_standard(
                             changed_coord_keys, area_bounds, zoom_level)
    /\ cpc' = IF standard_tiles' = {} THEN "no_tiles" ELSE "read"
    /\ UNCHANGED <<cycleVars, mergeVars, layoutVars, geo_points, geo_key, key_coords>>
    /\ UNCHANGED <<zoom_level, area_bounds,
                   changed_coord_keys, geo_scores, coord_states,
                   tile_content, probe, tile_coords, tile_bounds>>

\* changed_states = self.read_changed_coords_states(area_name, changed_coords)
ReadChangedCoordsStates ==
    /\ cpc = "read"
    /\ coord_states' = read_changed_coords_states(changed_coord_keys,
                                                  geo_scores)
    /\ cpc' = "paint"
    /\ UNCHANGED <<cycleVars, mergeVars, layoutVars, geo_points, geo_key, key_coords>>
    /\ UNCHANGED <<zoom_level, area_bounds,
                   changed_coord_keys, geo_scores, standard_tiles,
                   tile_content, probe, tile_coords, tile_bounds>>

\* One iteration of: for tile_x, tile_y, tile_z in affected_tiles
GenerateStandardTileContent(t) ==
    /\ cpc = "paint"
    /\ t \in standard_tiles \ DOMAIN tile_content
    /\ tile_content' = tile_content @@
           (t :> generate_standard_tile_content(t[1], t[2], t[3],
                                                coord_states))
    /\ cpc' = IF DOMAIN tile_content' = standard_tiles THEN "done"
              ELSE "paint"
    /\ UNCHANGED <<cycleVars, mergeVars, layoutVars, geo_points, geo_key, key_coords>>
    /\ UNCHANGED <<zoom_level, area_bounds,
                   changed_coord_keys, geo_scores, standard_tiles,
                   coord_states, probe, tile_coords, tile_bounds>>

\* tile_x, tile_y, tile_z = lat_lon_to_tile_coords(lat, lon, zoom)
LatLonToTileCoords ==
    /\ cpc = "probe"
    /\ tile_coords' = lat_lon_to_tile_coords(probe[1], probe[2], zoom_level)
    /\ cpc' = "bounds"
    /\ UNCHANGED <<cycleVars, mergeVars, layoutVars, geo_points, geo_key, key_coords>>
    /\ UNCHANGED <<zoom_level, area_bounds,
                   changed_coord_keys, geo_scores, standard_tiles,
                   coord_states, tile_content, probe, tile_bounds>>

\* The tile, its east neighbour and its south neighbour, in this order.
Neighbours(t) == <<t, <<t[1] + 1, t[2], t[3]>>, <<t[1], t[2] + 1, t[3]>> >>

\* bounds = tile_to_lat_lon_bounds(tile_x, tile_y, zoom)
TileToLatLonBounds ==
    /\ cpc = "bounds"
    /\ LET n == Cardinality(DOMAIN tile_bounds) + 1
           t == Neighbours(tile_coords)[n]
       IN /\ tile_bounds' = tile_bounds @@
                 (t :> tile_to_lat_lon_bounds(t[1], t[2], t[3]))
          /\ cpc' = IF n = 3 THEN "probed" ELSE "bounds"
    /\ UNCHANGED <<cycleVars, mergeVars, layoutVars, geo_points, geo_key, key_coords>>
    /\ UNCHANGED <<zoom_level, area_bounds,
                   changed_coord_keys, geo_scores, standard_tiles,
                   coord_states, tile_content, probe, tile_coords>>

\* from utils.coordinate_utils import (...): a name the module does not
\* define raises ImportError and the script ends.
ImportCoordinateUtils ==
    /\ cpc = "import"
    /\ cpc' = IF test_imports \subseteq coordinate_utils_names
              THEN "imported" ELSE "ImportError"
    /\ UNCHANGED <<cycleVars, mergeVars, layoutVars, geo_points, geo_key, key_coords>>
    /\ UNCHANGED <<zoom_level, area_bounds,
                   changed_coord_keys, geo_scores, standard_tiles,
                   coord_states, tile_content, probe, tile_coords,
                   tile_bounds>>

CoordNext ==
    \/ CalculateAffectedTilesStandard
    \/ ReadChangedCoordsStates
    \/ \E t \in standard_tiles : GenerateStandardTileContent(t)
    \/ LatLonToTileCoords
    \/ TileToLatLonBounds
    \/ ImportCoordinateUtils

CoordSpec == CoordInit /\ [][CoordNext]_vars

\* ------------------------------------------------------------------- C25
\* C25: for a point whose latitude is within the Web Mercator range, the
\* bounds tile_to_lat_lon_bounds returns for the tile
\* lat_lon_to_tile_coords assigns to the point contain the point:
\* minLat <= lat <= maxLat and minLng <= lon <= maxLng.
C25_BoundsContainPoint ==
    (/\ Len(probe) = 2
     /\ cpc \in {"bounds", "probed"}
     /\ tile_coords \in DOMAIN tile_bounds
     /\ -MAX_LATITUDE <= probe[1]
     /\ probe[1] <= MAX_LATITUDE)
    => LET bounds == tile_bounds[tile_coords]
       IN /\ bounds.minLat <= probe[1]
          /\ probe[1] <= bounds.maxLat
          /\ bounds.minLng <= probe[2]
          /\ probe[2] <= bounds.maxLng

\* ------------------------------------------------------------------- C26
\* C26: the bounds of a tile and of its east neighbour share the meridian
\* (maxLng of the tile = minLng of the neighbour) and the bounds of a tile
\* and of its south neighbour share the parallel (minLat of the tile =
\* maxLat of the neighbour), exactly.
C26_SharedEdgesEqual ==
    \A t \in DOMAIN tile_bounds : \A u \in DOMAIN tile_bounds :
        /\ u = <<t[1] + 1, t[2], t[3]>>
               => tile_bounds[t].maxLng = tile_bounds[u].minLng
        /\ u = <<t[1], t[2] + 1, t[3]>>
               => tile_bounds[t].minLat = tile_bounds[u].maxLat

\* The bounds of tile 1/1 at the deepest zoom and of both neighbours are
\* computed.
C26_Witness ==
    /\ cpc = "probed"
    /\ tile_coords = <<1, 1, MaxZoom>>
    /\ DOMAIN tile_bounds = Range(Neighbours(tile_coords))
    /\ tile_bounds[tile_coords].minLng < tile_bounds[tile_coords].maxLng
    /\ tile_bounds[tile_coords].minLat < tile_bounds[tile_coords].maxLat

\* ------------------------------------------------------------------- C22
\* The changed keys that split into two numbers lying inside the closed
\* rectangle of the area bounds.
InBoundsPoints ==
    {k \in changed_coord_keys :
        /\ Len(k) = 2
        /\ k[1].num /\ k[2].num
        /\ area_bounds.minLat <= k[1].val /\ k[1].val <= area_bounds.maxLat
        /\ area_bounds.minLng <= k[2].val /\ k[2].val <= area_bounds.maxLng}

TileOf(k) == lat_lon_to_tile_coords(k[1].val, k[2].val, zoom_level)

\* C22: the resolver returns exactly the tiles of the changed keys that
\* parse and lie inside the area bounds: every returned tile is the tile of
\* such a point, the tile of every such point is returned, other keys
\* contribute nothing and points of one tile give one entry.
C22_ResolvedTilesExact ==
    cpc \in {"read", "paint", "done", "no_tiles"}
    => /\ \A t \in standard_tiles : \E k \in InBoundsPoints : t = TileOf(k)
       /\ \A k \in InBoundsPoints : TileOf(k) \in standard_tiles
       /\ Cardinality(standard_tiles) <= Cardinality(InBoundsPoints)
       /\ InBoundsPoints = {} => standard_tiles = {}

\* A point inside the bounds and a parseable point outside them were
\* resolved to the one tile of the first.
C22_Witness ==
    /\ cpc = "read"
    /\ Cardinality(InBoundsPoints) = 1
    /\ \E k \in changed_coord_keys \ InBoundsPoints :
           /\ Len(k) = 2 /\ k[1].num /\ k[2].num
           /\ TileOf(k) \notin standard_tiles
    /\ Cardinality(standard_tiles) = 1

\* ------------------------------------------------------------------- C30
\* The number a score of the hash counts as: a missing score counts as 0.
Counted(s) == IF s.t = "num" THEN s.v ELSE 0

\* Both scores of the reply were read as numbers.
ScoresRead(reply) ==
    /\ reply.kind = "scores"
    /\ reply.Score_0.t # "text"
    /\ reply.Score_1.t # "text"

\* C30: read_changed_coords_states returns an entry for every requested
\* key; the entry is Muddy exactly when Score_1 is strictly greater than
\* Score_0, a missing score counting as 0, and Clear otherwise (equal
\* scores, and a reply without two readable scores).
C30_MuddyIffScoreStrictlyGreater ==
    cpc \in {"paint", "done"}
    => /\ DOMAIN coord_states = changed_coord_keys
       /\ \A k \in changed_coord_keys :
              /\ coord_states[k] \in {STATE_MUDDY, STATE_CLEAR}
              /\ coord_states[k] = STATE_MUDDY
                     <=> /\ ScoresRead(geo_scores[k])
                         /\ Counted(geo_scores[k].Score_1)
                                > Counted(geo_scores[k].Score_0)

\* One key with equal scores was read as Clear and one with a missing
\* Clear score and a positive Muddy score as Muddy.
C30_Witness ==
    /\ cpc = "paint"
    /\ \E k \in changed_coord_keys :
           /\ geo_scores[k] = Scores(Score(1), Score(1))
           /\ coord_states[k] = STATE_CLEAR
    /\ \E k \in changed_coord_keys :
           /\ geo_scores[k] = Scores(Nil, Score(1))
           /\ coord_states[k] = STATE_MUDDY

\* ------------------------------------------------------------------- C28
\* C28: the coordinate module provides the within-tile pixel operation the
\* test script imports as lat_lon_to_tile_pixel: once the import statement
\* of the test script has run, the name is bound and no ImportError was
\* raised.
C28_TilePixelProvided ==
    cpc \in {"imported", "ImportError"}
    => /\ cpc = "imported"
       /\ "lat_lon_to_tile_pixel" \in coordinate_utils_names

\* ------------------------------------------------------------------- C24
\* The tiles in which a pixel was set for the key.
PaintedIn(k) ==
    {t \in DOMAIN tile_content : \E e \in tile_content[t].painted : e.key = k}

\* C24: once the tiles of a change set are generated, every changed point
\* the resolver assigned a tile to is painted in that tile and in no other,
\* at a local pixel offset within 0..TILE_SIZE-1.
C24_PaintedInOwnTileOnly ==
    cpc = "done"
    => /\ \A k \in InBoundsPoints : PaintedIn(k) = {TileOf(k)}
       /\ \A t \in DOMAIN tile_content : \A e \in tile_content[t].painted :
              /\ e.pixel[1] \in 0..(TILE_SIZE - 1)
              /\ e.pixel[2] \in 0..(TILE_SIZE - 1)

\* ====================================================== geo keys as strings
\* format_coords_4decimal / coords_to_key / key_to_coords on strings: a
\* string is the sequence of its characters, a coordinate a number of 1e-5
\* degree.
DigitChars == <<"0", "1", "2", "3", "4", "5", "6", "7", "8", "9">>

\* The decimal digits of n >= 0.
RECURSIVE Decimal(_)
Decimal(n) ==
    IF n < 10 THEN <<DigitChars[n + 1]>>
    ELSE Append(Decimal(n \div 10), DigitChars[(n % 10) + 1])

\* f"{value:.4f}": sign, integer digits, the point and four decimals of the
\* value rounded to the nearest 1e-4 (no sample lies halfway).
Format4f(value) ==
    LET magnitude == IF value < 0 THEN -value ELSE value
        q == (magnitude + 5) \div 10
        frac == q % 10000
    IN (IF value < 0 THEN <<"-">> ELSE <<>>)
           \o Decimal(q \div 10000) \o <<".">>
           \o <<DigitChars[(frac \div 1000) + 1],
                DigitChars[((frac \div 100) % 10) + 1],
                DigitChars[((frac \div 10) % 10) + 1],
                DigitChars[(frac % 10) + 1]>>

format_coords_4decimal(lat, lon) == <<Format4f(lat), Format4f(lon)>>

\* Mutant: the two strings are joined by a hyphen.
coords_to_key_hyphen(lat, lon) ==
    LET c == format_coords_4decimal(lat, lon) IN c[1] \o <<"-">> \o c[2]

\* f"{lat_str}_{lon_str}"
coords_to_key(lat, lon) ==
    LET c == format_coords_4decimal(lat, lon) IN c[1] \o <<"_">> \o c[2]

\* key.split('_'): the pieces between the separators, empty ones included.
RECURSIVE Split(_, _)
Split(s, sep) ==
    IF s = <<>> THEN << <<>> >>
    ELSE LET rest == Split(Tail(s), sep) IN
         IF Head(s) = sep THEN << <<>> >> \o rest
         ELSE << <<Head(s)>> \o Head(rest) >> \o Tail(rest)

\* ------------------------------------------------------ runs of the key scheme
KeyLatitudes == {2366770, 2366774, 2366776, -2366770, -4, 0, 4}
KeyLongitudes == {12143700, 12143704, -12143700}

KeyInit ==
    /\ CoordRest
    /\ cpc = "keys"
    /\ geo_points \in {S \in SUBSET (KeyLatitudes \X KeyLongitudes) :
                          S # {} /\ Cardinality(S) <= MaxPoints}
    /\ geo_key = <<>>
    /\ key_coords = <<>>
    /\ zoom_level = 0
    /\ area_bounds = NoBox
    /\ changed_coord_keys = {}
    /\ geo_scores = <<>>
    /\ standard_tiles = {}
    /\ coord_states = <<>>
    /\ tile_content = <<>>
    /\ probe = <<0, 0>>
    /\ tile_coords = <<0, 0, 0>>
    /\ tile_bounds = <<>>

\* key = coords_to_key(lat, lon)
CoordsToKey(p) ==
    /\ cpc = "keys"
    /\ p \in geo_points \ DOMAIN geo_key
    /\ geo_key' = geo_key @@ (p :> coords_to_key(p[1], p[2]))
    /\ UNCHANGED <<cycleVars, mergeVars, layoutVars, cpc, zoom_level, area_bounds,
                   changed_coord_keys, geo_scores, standard_tiles,
                   coord_states, tile_content, probe, tile_coords,
                   tile_bounds, geo_points, key_coords>>

\* lat_str, lon_str = key_to_coords(key)
KeyToCoords(p) ==
    /\ cpc = "keys"
    /\ p \in DOMAIN geo_key
    /\ geo_key[p] \notin DOMAIN key_coords
    /\ key_coords' = key_coords @@
           (geo_key[p] :> key_to_coords(Split(geo_key[p], "_")))
    /\ UNCHANGED <<cycleVars, mergeVars, layoutVars, cpc, zoom_level, area_bounds,
                   changed_coord_keys, geo_scores, standard_tiles,
                   coord_states, tile_content, probe, tile_coords,
                   tile_bounds, geo_points, geo_key>>

KeyNext ==
    \/ \E p \in geo_points : CoordsToKey(p)
    \/ \E p \in geo_points : KeyToCoords(p)

KeySpec == KeyInit /\ [][KeyNext]_vars

\* ------------------------------------------------------------------- C31
\* C31: the key of a point splits back into the two strings
\* format_coords_4decimal gives for the point, negative values included,
\* and two points have the same key exactly when they format to the same
\* strings.
C31_KeyRoundTrip ==
    /\ \A p \in DOMAIN geo_key :
           geo_key[p] \in DOMAIN key_coords
           => /\ key_coords[geo_key[p]].kind = "coords"
              /\ <<key_coords[geo_key[p]].lat_str,
                   key_coords[geo_key[p]].lon_str>>
                     = format_coords_4decimal(p[1], p[2])
    /\ \A p \in DOMAIN geo_key : \A q \in DOMAIN geo_key :
           geo_key[p] = geo_key[q]
           <=> format_coords_4decimal(p[1], p[2])
                   = format_coords_4decimal(q[1], q[2])

\* Two distinct points of one 4-decimal cell, with negative coordinates,
\* were given one key and the key was split back.
C31_Witness ==
    \E p \in DOMAIN geo_key : \E q \in DOMAIN geo_key :
        /\ p # q
        /\ p[2] < 0
        /\ geo_key[p] = geo_key[q]
        /\ geo_key[p] \in DOMAIN key_coords
        /\ key_coords[geo_key[p]].lon_str[1] = "-"

\* ------------------------------------------------------------------- C32
\* C32: the table that decodes existing tiles is the inverse of the palette
\* that renders: in a rendered raster a pixel of the Clear or the Muddy
\* colour decodes to that state, a transparent pixel to no recorded state,
\* and the table holds exactly the palette's colours, each with its state.
C32_PaletteCodec ==
    mpc = "upload"
    => /\ DOMAIN color_to_state = {COLOR_PALETTE[s] : s \in DOMAIN COLOR_PALETTE}
       /\ \A s \in DOMAIN COLOR_PALETTE : color_to_state[COLOR_PALETTE[s]] = s
       /\ LET decoded == parse_existing_tile_pixels(png_bytes) IN
          \A p \in DOMAIN png_bytes.px :
              /\ \A s \in {STATE_CLEAR, STATE_MUDDY} :
                     png_bytes.px[p] = COLOR_PALETTE[s]
                     => p \in DOMAIN decoded /\ decoded[p] = s
              /\ png_bytes.px[p] = <<0, 0, 0, 0>> => p \notin DOMAIN decoded

\* A raster with a pixel rendered from a changed Muddy point, decoded as
\* Muddy, and a transparent pixel, decoded as nothing.
C32_Witness ==
    /\ mpc = "upload"
    /\ \E g \in DOMAIN changed_states :
           /\ in_tile(g, tile)
           /\ changed_states[g] = STATE_MUDDY
           /\ parse_existing_tile_pixels(png_bytes)[local(g, tile)] = STATE_MUDDY
    /\ \E p \in DOMAIN png_bytes.px :
           /\ png_bytes.px[p] = <<0, 0, 0, 0>>
           /\ p \notin DOMAIN parse_existing_tile_pixels(png_bytes)

\* ------------------------------------------------------------------- C33
\* The positions of a cycle after its copy step.
AfterCopyPcs == CyclePcs \ {"get_changed", "get_latest", "get_existing",
                            "alloc", "copy"}

\* C33: the copies a cycle issues are those of the tiles listed for the
\* previous version that are not affected, each from the previous version's
\* key to the same tile address under the new version; no affected tile is
\* copied, no tile is both copied and uploaded, and the count returned is
\* the number of copies that succeeded.
C33_CopiesAreTheUnchangedTiles ==
    pc \in AfterCopyPcs
    => /\ {c.dst[2] : c \in copy_calls} = existing_tiles \ affected_tiles
       /\ \A c \in copy_calls :
              /\ c.src = <<previous_version, c.dst[2]>>
              /\ c.dst = <<new_version, c.dst[2]>>
              /\ c.dst[2] \notin affected_tiles
              /\ c.dst[2] \notin uploaded
       /\ copied_count = Cardinality({c \in copy_calls : c.ok})

\* A cycle copied an unchanged tile of the previous version and uploaded
\* an affected one.
C33_Witness ==
    /\ pc \in AfterCopyPcs
    /\ \E c \in copy_calls : c.ok /\ c.dst \in tiles /\ c.src # c.dst
    /\ uploaded # {}
    /\ copied_count = 1

\* ------------------------------------------------------ keys of the tile store
\* A key is the sequence of its characters; versions and tile coordinates
\* are integers that the f-strings write in decimal.
MaxUploads == 2

\* str(n) of an integer.
Str(n) == IF n < 0 THEN <<"-">> \o Decimal(-n) ELSE Decimal(n)

ZoomDir == <<"/", "0", "/">>
PngSuffix == <<".", "p", "n", "g">>

StartsWith(s, prefix) ==
    Len(s) >= Len(prefix) /\ SubSeq(s, 1, Len(prefix)) = prefix

EndsWith(s, suffix) ==
    Len(s) >= Len(suffix)
    /\ SubSeq(s, Len(s) - Len(suffix) + 1, Len(s)) = suffix

\* Mutant: the tile is uploaded under zoom directory 1.
upload_key_zoom1(version, tile_x, tile_y) ==
    Str(version) \o <<"/", "1", "/">> \o Str(tile_x) \o <<"/">> \o Str(tile_y)
        \o PngSuffix

\* upload_tile_to_r2: key = f"{version}/0/{tile_x}/{tile_y}.png"
upload_key(version, tile_x, tile_y) ==
    Str(version) \o ZoomDir \o Str(tile_x) \o <<"/">> \o Str(tile_y)
        \o PngSuffix

\* download_existing_tile: key = f"{version}/0/{tile_x}/{tile_y}.png"
download_key(version, tile_x, tile_y) ==
    Str(version) \o ZoomDir \o Str(tile_x) \o <<"/">> \o Str(tile_y)
        \o PngSuffix

\* copy_unchanged_tiles: old_key = f"{old_version}/0/{tile}.png" and
\* new_key = f"{new_version}/0/{tile}.png", tile being a listed string.
copy_key(version, tile_string) ==
    Str(version) \o ZoomDir \o tile_string \o PngSuffix

\* copy_unchanged_tiles: f"{x}/{y}" of an affected tile.
tile_string(tile_x, tile_y) == Str(tile_x) \o <<"/">> \o Str(tile_y)

\* generate_version_metadata: f"{version}/0/{{x}}/{{y}}.png"
tile_pattern(version) ==
    Str(version) \o ZoomDir \o <<"{", "x", "}", "/", "{", "y", "}">>
        \o PngSuffix

\* f"{version}/metadata.json"
metadata_key(version) ==
    Str(version) \o <<"/", "m", "e", "t", "a", "d", "a", "t", "a",
                      ".", "j", "s", "o", "n">>

\* f"{version}/bounds/0.json"
bounds_key(version) ==
    Str(version) \o <<"/", "b", "o", "u", "n", "d", "s", "/", "0",
                      ".", "j", "s", "o", "n">>

\* get_existing_tiles: the objects under Prefix f"{previous_version}/0/"
\* whose key has four '/'-separated parts, the last ending in '.png',
\* each as f"{tile_x}/{tile_y}".
listed_tiles(objects, prior_version) ==
    {LET key_parts == Split(key, "/") IN
         key_parts[3] \o <<"/">>
             \o SubSeq(key_parts[4], 1, Len(key_parts[4]) - 4) :
     key \in {k \in objects :
                 /\ StartsWith(k, Str(prior_version) \o ZoomDir)
                 /\ Len(Split(k, "/")) = 4
                 /\ EndsWith(Split(k, "/")[4], PngSuffix)}}

\* ------------------------------------------------------ runs of the tile store
StoreVersions == {1, 10}
StoreTiles == {<<0, 0>>, <<12, 3>>}

LayoutInit ==
    /\ Fresh
    /\ Idle
    /\ previous_version = NoVersion
    /\ NoMerge
    /\ NoCoord
    /\ lpc = "store"
    /\ bucket = {}
    /\ put_tiles = {}
    /\ descriptor = <<>>
    /\ listed = NoCall
    /\ downloaded = NoCall
    /\ copy_object = NoCall

\* upload_tile_to_r2(tile_x, tile_y, png_bytes, version), the put accepted.
UploadTileToR2(version, t) ==
    /\ lpc = "store"
    /\ <<version, t[1], t[2]>> \notin put_tiles
    /\ Cardinality(put_tiles) < MaxUploads
    /\ bucket' = bucket \cup {upload_key(version, t[1], t[2])}
    /\ put_tiles' = put_tiles \cup {<<version, t[1], t[2]>>}
    /\ UNCHANGED <<cycleVars, mergeVars, coordVars, lpc, descriptor, listed,
                   downloaded, copy_object>>

\* The version descriptor and the bounds document of a version are stored.
UploadVersionDocuments(version) ==
    /\ lpc = "store"
    /\ version \notin DOMAIN descriptor
    /\ descriptor' = descriptor @@ (version :> tile_pattern(version))
    /\ bucket' = bucket \cup {metadata_key(version), bounds_key(version)}
    /\ UNCHANGED <<cycleVars, mergeVars, coordVars, lpc, put_tiles, listed,
                   downloaded, copy_object>>

\* existing_tiles = get_existing_tiles(previous_version), the listing answered.
ListExistingTiles(version) ==
    /\ lpc = "store"
    /\ listed' = [kind |-> "list", version |-> version,
                  tiles |-> listed_tiles(bucket, version),
                  put |-> {u \in put_tiles : u[1] = version}]
    /\ UNCHANGED <<cycleVars, mergeVars, coordVars, lpc, bucket, put_tiles,
                   descriptor, downloaded, copy_object>>

\* download_existing_tile(tile_x, tile_y, version): get_object of the key,
\* None when the store has no such key.
ReadExistingTile(version, t) ==
    /\ lpc = "store"
    /\ downloaded' = [kind |-> "get", version |-> version, tile |-> t,
                      key |-> download_key(version, t[1], t[2]),
                      found |-> download_key(version, t[1], t[2]) \in bucket,
                      put |-> <<version, t[1], t[2]>> \in put_tiles]
    /\ UNCHANGED <<cycleVars, mergeVars, coordVars, lpc, bucket, put_tiles,
                   descriptor, listed, copy_object>>

\* One copy_object of copy_unchanged_tiles(existing_tiles, affected_tiles,
\* old_version, new_version) for a listed tile.
CopyListedTile(new, name) ==
    /\ lpc = "store"
    /\ listed.kind = "list"
    /\ name \in listed.tiles
    /\ new # listed.version
    /\ copy_object' = [kind |-> "copy", old |-> listed.version, new |-> new,
                  tile |-> name, src |-> copy_key(listed.version, name),
                  dst |-> copy_key(new, name),
                  found |-> copy_key(listed.version, name) \in bucket,
                  put |-> {u \in listed.put :
                              tile_string(u[2], u[3]) = name}]
    /\ bucket' = IF copy_key(listed.version, name) \in bucket
                 THEN bucket \cup {copy_key(new, name)} ELSE bucket
    /\ UNCHANGED <<cycleVars, mergeVars, coordVars, lpc, put_tiles,
                   descriptor, listed, downloaded>>

LayoutNext ==
    \/ \E v \in StoreVersions : \E t \in StoreTiles : UploadTileToR2(v, t)
    \/ \E v \in StoreVersions : UploadVersionDocuments(v)
    \/ \E v \in StoreVersions : ListExistingTiles(v)
    \/ \E v \in StoreVersions : \E t \in StoreTiles : ReadExistingTile(v, t)
    \/ \E v \in StoreVersions :
           \E t \in {tile_string(c[1], c[2]) : c \in StoreTiles} :
               CopyListedTile(v, t)

LayoutSpec == LayoutInit /\ [][LayoutNext]_vars

\* ------------------------------------------------------------------- C34
\* What a client makes of a tile access pattern for an address.
RECURSIVE Replace(_, _, _)
Replace(s, old, new) ==
    IF s = <<>> THEN <<>>
    ELSE IF StartsWith(s, old)
         THEN new \o Replace(SubSeq(s, Len(old) + 1, Len(s)), old, new)
         ELSE <<Head(s)>> \o Replace(Tail(s), old, new)

Expand(pattern, tile_x, tile_y) ==
    Replace(Replace(pattern, <<"{", "x", "}">>, Str(tile_x)),
            <<"{", "y", "}">>, Str(tile_y))

\* C34: a tile uploaded for (x, y) under version v is stored at the key
\* that a later listing of v gives as 'x/y', that a later download of
\* (x, y, v) reads and finds, that a copy of the listed 'x/y' uses as its
\* source, and that the tile access pattern of v's descriptor expands to.
C34_KeyLayoutAgrees ==
    /\ \A u \in put_tiles :
           /\ upload_key(u[1], u[2], u[3]) \in bucket
           /\ u[1] \in DOMAIN descriptor
              => Expand(descriptor[u[1]], u[2], u[3])
                     = upload_key(u[1], u[2], u[3])
    /\ listed.kind = "list"
       => /\ \A u \in listed.put :
                 u[1] = listed.version
                 => tile_string(u[2], u[3]) \in listed.tiles
          /\ \A t \in listed.tiles :
                 copy_key(listed.version, t) \in bucket
    /\ downloaded.kind = "get"
       => (downloaded.put
           => /\ downloaded.found
              /\ downloaded.key = upload_key(downloaded.version,
                                             downloaded.tile[1],
                                             downloaded.tile[2]))
    /\ copy_object.kind = "copy"
       => \A u \in copy_object.put :
              /\ u[1] = copy_object.old
              /\ tile_string(u[2], u[3]) = copy_object.tile
              /\ copy_object.src = upload_key(u[1], u[2], u[3])
              /\ copy_object.found
              /\ copy_object.dst
                     = download_key(copy_object.new, u[2], u[3])

\* A tile with a two-digit address was uploaded under a version whose
\* descriptor is stored, then listed, downloaded and copied.
C34_Witness ==
    /\ <<10, 12, 3>> \in put_tiles
    /\ 10 \in DOMAIN descriptor
    /\ listed.kind = "list" /\ listed.version = 10
    /\ <<10, 12, 3>> \in listed.put
    /\ downloaded.kind = "get" /\ downloaded.put /\ downloaded.found
    /\ downloaded.version = 10 /\ downloaded.tile = <<12, 3>>
    /\ copy_object.kind = "copy" /\ copy_object.found
    /\ copy_object.put # {}
    /\ copy_object.tile = tile_string(12, 3)
    /\ copy_key(1, tile_string(12, 3)) \in bucket

\* ------------------------------------------------------------------- C35
\* C35: in the coverage of a version descriptor clear_grids, muddy_grids
\* and undefined_grids add up to the number of changed points,
\* total_reported_grids is clear_grids + muddy_grids, and affected_tiles
\* is the number of affected tiles, for every map of states.
C35_CoverageCountsPartition ==
    mpc = "metadata"
    => /\ coverage.clear_grids + coverage.muddy_grids
              + coverage.undefined_grids
                  = Cardinality(DOMAIN changed_states)
       /\ coverage.total_reported_grids
              = coverage.clear_grids + coverage.muddy_grids
       /\ coverage.affected_tiles
              = Cardinality(calculate_affected_tiles(DOMAIN changed_states))

\* ------------------------------------------- a cycle with reporters at work
\* One invocation over a pending change set while reporters go on adding
\* ids to the change sets.
RaceNext ==
    \/ RunNext
    \/ \E a \in Areas, g \in GridIds : Report(a, g)

RaceSpec == RunInit /\ [][RaceNext]_vars

\* ------------------------------------------------------------------- C36
\* C36: an id added to the area's change set after the cycle's read and
\* before its clear, which the cycle therefore did not read or render, is
\* still pending after the cycle: the clear removes no id the cycle did
\* not read.
C36_ClearKeepsUnreadIds ==
    [][(pc = "clear" /\ pc' = "returned")
           => \A g \in changed_grids[area] \ changed :
                  g \in changed_grids'[area]]_vars

\* ------------------------------------------------------------------- C37
\* C37: when a cycle has reported success for an area, tile_version:{area}
\* holds the version that cycle allocated, which is then what
\* get_latest_version gives the area's next cycle as its previous version.
C37_PointerFollowsSuccess ==
    (pc = "returned" /\ result.success)
        => /\ tile_version[area] = new_version
           /\ r2_enabled => get_latest_version(area, TRUE, TRUE) = new_version

\* ------------------------------------------------------------------- C38
\* The positions of a cycle from its first metadata write on.
AnnouncePcs == {"meta_version", "meta_bounds", "meta_tileset", "meta_index",
                "meta_pointer", "set_pointer", "clear"}

\* C38: a cycle whose per-tile loop ends with zero successes returns the
\* 'no tiles processed' failure: it never reaches the metadata, pointer or
\* clear steps, so it has written no metadata document and no version
\* index entry, has set no version pointer and has issued no DEL, and the
\* change set is as read (plus what reporters added).
C38_NoTilesNothingAnnounced ==
    /\ [](pc \in AnnouncePcs => success_count > 0)
    /\ []((pc = "returned" /\ result.tag = "no_tiles_processed")
              => /\ ~result.success
                 /\ success_count = 0
                 /\ \A d \in Docs : doc_status[d] = "none"
                 /\ del_status = "none"
                 /\ changed_grids[area] = at_read \cup arrived)
    /\ [][(pc \in CyclePcs /\ success_count = 0)
              => /\ tile_version' = tile_version
                 /\ tile_version_global' = tile_version_global
                 /\ version_metadata' = version_metadata
                 /\ bounds_metadata' = bounds_metadata
                 /\ tilesetmetadata' = tilesetmetadata
                 /\ versions_json' = versions_json
                 /\ changed_grids'[area] = changed_grids[area]]_vars

\* Every affected tile of a cycle failed and the cycle returned the
\* failure with the change set still pending.
C38_Witness ==
    /\ pc = "returned"
    /\ result.tag = "no_tiles_processed"
    /\ affected_tiles # {}
    /\ r2_enabled
    /\ uploaded = {}
    /\ changed_grids[area] # {}

\* ------------------------------------------------- states of the changed grids
\* What _redis_request returns for HGET grid:{area}:{id} finalState: None
\* for a failed request, a document without 'result', a null result (no
\* finalState stored), or the stored text, an integer or not.
HgetReplies ==
    {[kind |-> "none"], [kind |-> "error"], [kind |-> "null"],
     [kind |-> "text"]}
        \cup {[kind |-> "int", val |-> v] : v \in StateValues}

\* The state recorded for one reply: int(result['result']), STATE_UNDEFINED
\* when there is no result or int() raises.
grid_state(reply) ==
    IF reply.kind = "int" THEN reply.val ELSE STATE_UNDEFINED

\* Mutant: an id whose read gave no state is left out of the map.
RECURSIVE read_changed_grids_states_skipping(_, _)
read_changed_grids_states_skipping(changed_grid_ids, reply) ==
    IF changed_grid_ids = {} THEN NoPixels
    ELSE LET grid_id == CHOOSE g \in changed_grid_ids : TRUE
             grid_states == read_changed_grids_states_skipping(
                                changed_grid_ids \ {grid_id}, reply)
         IN IF reply[grid_id].kind = "int"
            THEN (grid_id :> grid_state(reply[grid_id])) @@ grid_states
            ELSE grid_states

\* read_changed_grids_states: grid_states[grid_id] is set once for every
\* id of the list, in turn.
RECURSIVE read_changed_grids_states(_, _)
read_changed_grids_states(changed_grid_ids, reply) ==
    IF changed_grid_ids = {} THEN NoPixels
    ELSE LET grid_id == CHOOSE g \in changed_grid_ids : TRUE
             grid_states == read_changed_grids_states(
                                changed_grid_ids \ {grid_id}, reply)
         IN (grid_id :> grid_state(reply[grid_id])) @@ grid_states

\* The changed ids of an area and what Redis answers for each.
ReadInit ==
    /\ AfterFirstPublish
    /\ Idle
    /\ previous_version = NoVersion
    /\ mpc = "read"
    /\ tile = <<0, 0>>
    /\ stored_png = NoSuchKey
    /\ changed_states = NoPixels
    /\ existing_tile_bytes = None
    /\ png_bytes = None
    /\ coverage = None
    /\ hget_reply \in UNION {[D -> HgetReplies] :
                       D \in {E \in SUBSET MergeGridIds :
                                 Cardinality(E) <= MaxChanged}}
    /\ NoCoord
    /\ NoLayout

\* changed_states = self.read_changed_grids_states(area_name, changed_grids)
ReadChangedGridsStates ==
    /\ mpc = "read"
    /\ changed_states' = read_changed_grids_states(DOMAIN hget_reply,
                                                   hget_reply)
    /\ mpc' = "states"
    /\ UNCHANGED <<cycleVars, coordVars, layoutVars, tile, stored_png,
                   existing_tile_bytes, png_bytes, coverage, hget_reply>>

ReadNext == ReadChangedGridsStates

ReadSpec == ReadInit /\ [][ReadNext]_vars

\* ------------------------------------------------------------------- C39
\* C39: the map read_changed_grids_states returns has exactly the requested
\* ids as keys; an id whose read failed or that has no stored finalState
\* is mapped to Undefined, an id with a stored state to that state.
C39_StatesForExactlyTheRequestedIds ==
    mpc = "states"
    => /\ DOMAIN changed_states = DOMAIN hget_reply
       /\ \A g \in DOMAIN hget_reply :
              /\ hget_reply[g].kind \in {"none", "error", "null"}
                     => changed_states[g] = STATE_UNDEFINED
              /\ hget_reply[g].kind = "int"
                     => changed_states[g] = hget_reply[g].val

\* Two ids were requested, the read of one failed and the other has a
\* stored state.
C39_Witness ==
    /\ mpc = "states"
    /\ \E g \in DOMAIN hget_reply : \E h \in DOMAIN hget_reply :
           /\ hget_reply[g].kind = "none"
           /\ hget_reply[h].kind = "int"
           /\ changed_states[g] = STATE_UNDEFINED
           /\ changed_states[h] = STATE_MUDDY

====
